---- MODULE Spec2Model ----
(***************************************************************************)
(* Model of pi_mqtt_gpio.server.hardware.HardwareManager: the command      *)
(* queue, the dedicated worker thread that drains it, the start/stop       *)
(* lifecycle of that thread and the gpiozero edge callbacks that hand      *)
(* DeviceState payloads to the asyncio loop.                               *)
(* And of pi_mqtt_gpio.server.mqtt.MQTTManager: the event queue, the       *)
(* session task that connects, publishes and reconnects, stop(), and the   *)
(* shutdown sequence of pi_mqtt_gpio.server.main.                          *)
(***************************************************************************)
EXTENDS Integers, Sequences, FiniteSets, TLC

\* ------------------------------------------------------------------ bounds
MaxCalls == 4     \* calls of submit, start and stop in one behaviour
MaxEdges == 3     \* edges driven on the button pin in one behaviour
MaxDevices == 2   \* device specs in a configuration
MaxPayloads == 3  \* payloads given to publish_hardware_event in one behaviour
MaxClock == 2     \* readings the clock advances through
MaxEncodes == 2   \* to_bytes() calls on one payload object
MaxConns == 2     \* connections the broker accepts in one behaviour

\* ------------------------------------------------- devices and their classes
\* DEVICE_CLASSES: the type names initialize_gpio_devices accepts.
DEVICE_CLASSES == {"LED", "Button", "Motor"}

\* The callable attributes getattr() finds on an instance of each class:
\* the operations of the class and close(), which every Device has.
DeviceMethods(type) ==
    CASE type = "LED"    -> {"on", "off", "toggle", "close"}
      [] type = "Button" -> {"wait_for_press", "close"}
      [] type = "Motor"  -> {"forward", "backward", "stop", "close"}
      [] OTHER           -> {}

\* The operations a command is meant to reach on a device of each class:
\* its output operations and the read of its value.
CapabilitySet(type) ==
    CASE type = "LED"    -> {"on", "off", "toggle", "value"}
      [] type = "Button" -> {"wait_for_press", "value"}
      [] type = "Motor"  -> {"forward", "backward", "stop", "value"}
      [] OTHER           -> {}

\* The attributes getattr() finds that are not callable (calling one raises).
DeviceAttrs(type) ==
    CASE type = "LED"    -> {"value", "is_lit"}
      [] type = "Button" -> {"value", "is_pressed"}
      [] type = "Motor"  -> {"value"}
      [] OTHER           -> {}

\* The pin of a spec without a "pin" key: dev_conf.get("pin") is None.
NoPin == -1

\* A device spec of the configuration; "" stands for a missing (None)
\* name or type.
DeviceSpec(name, pin, type) == [name |-> name, pin |-> pin, type |-> type]

\* The device list of the configuration used by the executor behaviours.
DefaultConfig ==
    << DeviceSpec("led_17", 17, "LED"), DeviceSpec("button_27", 27, "Button") >>

\* The device specs configurations are drawn from: three well-formed ones
\* (two of them on the same pin), and one each with no name, no pin, pin
\* number 0, no type and a type that DEVICE_CLASSES does not know.
ConfigSpecs ==
    { DeviceSpec("led_17", 17, "LED"),
      DeviceSpec("button_27", 27, "Button"),
      DeviceSpec("motor_27", 27, "Motor"),
      DeviceSpec("", 17, "LED"),
      DeviceSpec("led_4", NoPin, "LED"),
      DeviceSpec("led_0", 0, "LED"),
      DeviceSpec("led_5", 5, ""),
      DeviceSpec("servo_6", 6, "Servo") }

\* Every device list of at most MaxDevices specs.
Configs ==
    UNION { [1..n -> ConfigSpecs] : n \in 0..MaxDevices }

\* The registry is a set of [name, type, pin] bindings, one per name.
RegistryNames(reg) == { d.name : d \in reg }

RegistryType(reg, name) == (CHOOSE d \in reg : d.name = name).type

\* device_class(pin) raises when a device already holds the pin.
ConstructorRaises(reg, conf) == \E d \in reg : d.pin = conf.pin

\* all([name, pin, type_name]): the truth value of each of the three, which
\* is false for None, for an empty string and for the number 0.
AllTruthy(conf) == conf.name # "" /\ conf.pin \notin {NoPin, 0} /\ conf.type # ""

\* One iteration of the loop of initialize_gpio_devices.
InitializeOne(reg, conf) ==
    IF ~AllTruthy(conf)
    THEN reg
    ELSE IF conf.type \notin DEVICE_CLASSES
    THEN reg
    ELSE IF ConstructorRaises(reg, conf)
    THEN reg
    ELSE { d \in reg : d.name # conf.name }
           \cup { [name |-> conf.name, type |-> conf.type, pin |-> conf.pin] }

RECURSIVE InitializeGpioDevices(_, _)
InitializeGpioDevices(reg, device_config) ==
    IF device_config = << >> THEN reg
    ELSE InitializeGpioDevices(InitializeOne(reg, Head(device_config)),
                               Tail(device_config))

\* ------------------------------------------------------------------ commands
\* The sentinel stop_worker_thread puts on the queue (None in the source).
NoneItem == [id |-> 0, device |-> "", method |-> ""]

IsNone(item) == item.id = 0

\* The command shapes a producer submits: two valid LED operations, a
\* device that is not registered, an operation the device does not have,
\* and an attribute that exists but raises when it is called.
CommandKinds ==
    { [device |-> "led_17", method |-> "on"],
      [device |-> "led_17", method |-> "off"],
      [device |-> "ghost",  method |-> "on"],
      [device |-> "led_17", method |-> "fly"],
      [device |-> "led_17", method |-> "value"] }

Command(id, k) == [id |-> id, device |-> k.device, method |-> k.method]

VARIABLES
    config,           \* self.config: the device list of the configuration
    devices,          \* self.devices: the registry
    registryAccess,   \* the threads that used self.devices once it was built
    devValue,         \* the value of each registered device
    queue,            \* inbound_command_queue: the items waiting
    unfinished,       \* inbound_command_queue.unfinished_tasks
    worker_running,   \* _worker_running (threading.Event)
    worker_thread,    \* _worker_thread: 0 for None, else an index of threads
    threads,          \* every worker thread ever created: [pc, cmd]
    pcCtl,            \* where the thread calling start/stop is
    lastLog,          \* the last lifecycle message logged by start/stop
    calls,            \* calls of submit, start and stop made so far
    nextId,           \* identity of the next command submitted
    handled,          \* the commands _execute_command has handled, in order
    sentinelAt,       \* commands submitted when a sentinel was last put, or -1
    submittedRunning, \* ids submitted while the worker was running
    callbacks,        \* the when_pressed / when_released bindings
    edges,            \* edges driven on the button pin so far
    scheduled,        \* payloads handed to loop.call_soon_threadsafe
    eventLog,         \* what the last edge callback did
    cbThread,         \* the callback the device library's thread is in
    event_queue,      \* MQTTManager.event_queue: the entries waiting
    putThreads,       \* the threads that have executed event_queue.put_nowait
    nextPid,          \* identity of the next payload enqueued
    event_unfinished, \* event_queue's count of unfinished tasks
    main_task,        \* where the task running _main_loop is
    held,             \* the entry _publisher_loop took and is publishing
    conn,             \* connections made so far
    brokerUp,         \* the broker is reachable
    linkUp,           \* the connection the client holds is still alive
    published,        \* what the broker has received, in order
    wills,            \* the last-will of every connection attempt
    pubLog,           \* the last message the session task logged
    pcStop,           \* where a call of MQTTManager.stop() is
    pcShutdown,       \* where main.shutdown() is
    cancelledIn,      \* where the session task was when it was cancelled
    pcMain,           \* where main_application_runner is
    telemetry_task,   \* the task running system_telemetry_loop
    opLog,            \* what main.py has called on the two managers, in order
    clock,            \* the reading of time.time()
    obj,              \* a DeviceStatePayload object a caller constructed
    wire,             \* what each to_bytes() of obj was published as
    shutdowns,        \* where each shutdown() task a signal created is
    cancelReq,        \* the shutdown() tasks with a cancellation to deliver
    orphans,          \* session tasks that self._main_task no longer names
    cfgFile,          \* what is at the path load_config is given
    loaded,           \* what load_config returned
    params            \* the fields MQTTManager.__init__ took from the config

vars == << config, devices, registryAccess, devValue, queue, unfinished, worker_running,
           worker_thread, threads, pcCtl, lastLog, calls, nextId, handled,
           sentinelAt, submittedRunning, callbacks, edges, scheduled,
           eventLog, cbThread, event_queue, putThreads, nextPid,
           event_unfinished, main_task,
           held, conn, brokerUp, linkUp, published, wills, pubLog,
           pcStop, pcShutdown, cancelledIn, pcMain, telemetry_task, opLog,
           clock, obj, wire, shutdowns, cancelReq, orphans, cfgFile, loaded,
           params >>

execVars == << devValue, queue, unfinished, worker_running, worker_thread,
               threads, pcCtl, lastLog, calls, nextId, handled, sentinelAt,
               submittedRunning >>

regVars == << config, devices, registryAccess >>

eventVars == << callbacks, edges, scheduled, eventLog, cbThread >>

queueVars == << event_queue, putThreads, nextPid, event_unfinished >>

sessVars == << main_task, held, conn, brokerUp, linkUp, published, wills,
              pubLog >>

stopVars == << pcStop, pcShutdown, cancelledIn >>

pubVars == << queueVars, sessVars, stopVars >>

hwVars == << regVars, execVars, eventVars >>

mainVars == << pcMain, telemetry_task, opLog >>

taskVars == << shutdowns, cancelReq, orphans >>

bootVars == << cfgFile, loaded, params >>

codecVars == << clock, obj, wire >>

\* ----------------------------------------------------------------- threads
\* Commands executed by the thread that runs the event loop.
ExecuteOnLoop == "loop"

\* The thread that runs _worker_loop and with it _execute_command:
\* threading.Thread(target=self._worker_loop).
ExecuteThread == "worker"

\* The device library's callback thread is in no callback.
NoCallback == [name |-> "", kind |-> ""]

Alive(t) == t # 0 /\ threads[t].pc # "dead"

\* self._worker_thread and self._worker_thread.is_alive()
WorkerAlive == Alive(worker_thread)

SetPc(t, pc, cmd) == [threads EXCEPT ![t] = [pc |-> pc, cmd |-> cmd]]

\* ------------------------------------------------------------- construction
\* HardwareManager.__init__ followed by initialize_gpio_devices.
InitManager(conf) ==
    /\ config = conf
    /\ devices = InitializeGpioDevices({}, config)
    /\ registryAccess = {}
    /\ devValue = [n \in RegistryNames(devices) |-> 0]
    /\ queue = << >>
    /\ unfinished = 0
    /\ worker_running = FALSE
    /\ worker_thread = 0
    /\ threads = << >>
    /\ pcCtl = "idle"
    /\ lastLog = "none"
    /\ calls = 0
    /\ nextId = 1
    /\ handled = << >>
    /\ sentinelAt = -1
    /\ submittedRunning = {}
    /\ callbacks = {}
    /\ edges = 0
    /\ scheduled = << >>
    /\ eventLog = "none"
    /\ cbThread = NoCallback

\* No entry in hand (None in the source).
NoEntry == [id |-> 0, payload |-> [type |-> "None"]]

\* MQTTManager.__init__ on a fresh asyncio.Queue; no task yet.
InitPublisher ==
    /\ event_queue = << >>
    /\ putThreads = {}
    /\ nextPid = 1
    /\ event_unfinished = 0
    /\ main_task = "none"
    /\ held = NoEntry
    /\ conn = 0
    /\ brokerUp = TRUE
    /\ linkUp = FALSE
    /\ published = << >>
    /\ wills = {}
    /\ pubLog = "none"
    /\ pcStop = "idle"
    /\ pcShutdown = "none"
    /\ cancelledIn = "none"

\* An entry of opLog: what was called and, where it matters, with what.
Call(op, arg) == [op |-> op, arg |-> arg]

\* main.py has not run: the managers are used directly, as the tests do.
NoMain ==
    /\ pcMain = "direct"
    /\ telemetry_task = "none"
    /\ opLog = << >>

\* No payload object constructed yet.
NoObj == [type |-> "None"]

\* No caller has constructed or encoded a payload of its own.
InitCodec ==
    /\ clock = 0
    /\ obj = NoObj
    /\ wire = << >>

\* Two termination signals are enough for one to arrive while the
\* shutdown() of the other is under way.
MaxSignals == 2

\* No signal received, and no session task but the one start() made.
NoTasks ==
    /\ shutdowns = [s \in 1..MaxSignals |-> "none"]
    /\ cancelReq = {}
    /\ orphans = << >>

\* The configuration given directly, load_config not called.
NoBoot ==
    /\ cfgFile = "none"
    /\ loaded = NoObj
    /\ params = NoObj

Init ==
    /\ InitManager(DefaultConfig)
    /\ InitPublisher
    /\ NoMain
    /\ InitCodec
    /\ NoTasks
    /\ NoBoot

\* ------------------------------------------------------------------- submit
\* A producer's inbound_command_queue.put(command), the command being of one
\* of the given shapes.
SubmitOf(kinds) ==
    /\ calls < MaxCalls
    /\ calls' = calls + 1
    /\ \E k \in kinds :
         queue' = Append(queue, Command(nextId, k))
    /\ unfinished' = unfinished + 1
    /\ nextId' = nextId + 1
    /\ submittedRunning' =
         IF /\ WorkerAlive
            /\ worker_running
            /\ pcCtl = "idle"
            /\ threads[worker_thread].pc # "sentinel"
         THEN submittedRunning \cup {nextId} ELSE submittedRunning
    /\ UNCHANGED regVars
    /\ UNCHANGED pubVars
    /\ UNCHANGED << mainVars, codecVars, taskVars, bootVars >>
    /\ UNCHANGED << devValue, worker_running, worker_thread, threads, pcCtl,
                    lastLog, handled, sentinelAt >>
    /\ UNCHANGED eventVars

Submit == SubmitOf(CommandKinds)

\* Commands for the LED: an operation of the LED, the close() every device
\* inherits, and a name the device has no attribute for.
DispatchKinds ==
    { [device |-> "led_17", method |-> "toggle"],
      [device |-> "led_17", method |-> "close"],
      [device |-> "led_17", method |-> "fly"] }

SubmitDispatch == SubmitOf(DispatchKinds)

\* ---------------------------------------------------------------- lifecycle
\* A start that did not test whether the worker is alive.
StartUnchecked ==
    /\ pcCtl = "idle"
    /\ calls < MaxCalls
    /\ calls' = calls + 1
    /\ worker_running' = TRUE
    /\ threads' = Append(threads, [pc |-> "check", cmd |-> NoneItem])
    /\ worker_thread' = Len(threads) + 1
    /\ lastLog' = "started"
    /\ UNCHANGED regVars
    /\ UNCHANGED pubVars
    /\ UNCHANGED << mainVars, codecVars, taskVars, bootVars >>
    /\ UNCHANGED << devValue, queue, unfinished, pcCtl, nextId, handled,
                    sentinelAt, submittedRunning >>
    /\ UNCHANGED eventVars

\* start_worker_thread.
StartWorkerThread ==
    /\ pcCtl = "idle"
    /\ calls < MaxCalls
    /\ calls' = calls + 1
    /\ IF ~WorkerAlive
       THEN /\ worker_running' = TRUE
            /\ threads' = Append(threads, [pc |-> "check", cmd |-> NoneItem])
            /\ worker_thread' = Len(threads) + 1
            /\ lastLog' = "started"
       ELSE /\ lastLog' = "start_noop"
            /\ UNCHANGED << worker_running, threads, worker_thread >>
    /\ UNCHANGED regVars
    /\ UNCHANGED pubVars
    /\ UNCHANGED << devValue, queue, unfinished, pcCtl, nextId, handled,
                    sentinelAt, submittedRunning >>
    /\ UNCHANGED eventVars

\* start_worker_thread() called by a test or another caller.
Start == StartWorkerThread /\ UNCHANGED << mainVars, codecVars, taskVars, bootVars >>

\* A stop that did not test whether the worker is alive.
StopCallUnchecked ==
    /\ pcCtl = "idle"
    /\ calls < MaxCalls
    /\ calls' = calls + 1
    /\ worker_running' = FALSE
    /\ pcCtl' = "stop_put"
    /\ UNCHANGED regVars
    /\ UNCHANGED pubVars
    /\ UNCHANGED << mainVars, codecVars, taskVars, bootVars >>
    /\ UNCHANGED << devValue, queue, unfinished, worker_thread, threads,
                    lastLog, nextId, handled, sentinelAt, submittedRunning >>
    /\ UNCHANGED eventVars

\* stop_worker_thread: the liveness test and _worker_running.clear().
StopWorkerThread ==
    /\ pcCtl = "idle"
    /\ calls < MaxCalls
    /\ calls' = calls + 1
    /\ IF WorkerAlive
       THEN /\ worker_running' = FALSE
            /\ pcCtl' = "stop_put"
            /\ UNCHANGED lastLog
       ELSE /\ lastLog' = "stop_noop"
            /\ UNCHANGED << worker_running, pcCtl >>
    /\ UNCHANGED regVars
    /\ UNCHANGED pubVars
    /\ UNCHANGED << devValue, queue, unfinished, worker_thread, threads,
                    nextId, handled, sentinelAt, submittedRunning >>
    /\ UNCHANGED eventVars

\* stop_worker_thread() called by a test or another caller.
StopCall == StopWorkerThread /\ UNCHANGED << mainVars, codecVars, taskVars, bootVars >>

\* stop_worker_thread: inbound_command_queue.put(None).
StopPut ==
    /\ pcCtl = "stop_put"
    /\ queue' = Append(queue, NoneItem)
    /\ unfinished' = unfinished + 1
    /\ sentinelAt' = nextId - 1
    /\ pcCtl' = "stop_join"
    /\ UNCHANGED regVars
    /\ UNCHANGED pubVars
    /\ UNCHANGED << mainVars, codecVars, taskVars, bootVars >>
    /\ UNCHANGED << devValue, worker_running, worker_thread, threads, lastLog,
                    calls, nextId, handled, submittedRunning >>
    /\ UNCHANGED eventVars

\* A stop that waited on inbound_command_queue.join() instead of the thread.
StopJoinQueue ==
    /\ pcCtl = "stop_join"
    /\ unfinished = 0
    /\ pcCtl' = "idle"
    /\ lastLog' = "stopped"
    /\ UNCHANGED regVars
    /\ UNCHANGED pubVars
    /\ UNCHANGED << mainVars, codecVars, taskVars, bootVars >>
    /\ UNCHANGED << devValue, queue, unfinished, worker_running,
                    worker_thread, threads, calls, nextId, handled,
                    sentinelAt, submittedRunning >>
    /\ UNCHANGED eventVars

\* stop_worker_thread: _worker_thread.join() returns once the thread ended.
StopJoin ==
    /\ pcCtl = "stop_join"
    /\ ~WorkerAlive
    /\ pcCtl' = "idle"
    /\ lastLog' = "stopped"
    /\ UNCHANGED regVars
    /\ UNCHANGED pubVars
    /\ UNCHANGED << mainVars, codecVars, taskVars, bootVars >>
    /\ UNCHANGED << devValue, queue, unfinished, worker_running,
                    worker_thread, threads, calls, nextId, handled,
                    sentinelAt, submittedRunning >>
    /\ UNCHANGED eventVars

\* ------------------------------------------------------------ the worker
\* What _execute_command does with a command: "no_device" and "no_method"
\* are its two rejections, "raised" is the except branch around the call,
\* "ok" is a call that returned.
Outcome(cmd) ==
    IF cmd.device \notin RegistryNames(devices) THEN "no_device"
    ELSE IF cmd.method \in DeviceMethods(RegistryType(devices, cmd.device))
    THEN "ok"
    ELSE IF cmd.method \in DeviceAttrs(RegistryType(devices, cmd.device))
    THEN "raised"
    ELSE "no_method"

\* The value of the device after method_to_call() returned.
MethodEffect(method, v) ==
    CASE method = "on"     -> 1
      [] method = "off"    -> 0
      [] method = "toggle" -> 1 - v
      [] OTHER             -> v

\* An _execute_command that switched the device off when it could not find
\* the method.
ExecuteCommandResets(cmd) ==
    IF Outcome(cmd) = "ok"
    THEN [devValue EXCEPT ![cmd.device] = MethodEffect(cmd.method, @)]
    ELSE IF Outcome(cmd) = "no_method"
    THEN [devValue EXCEPT ![cmd.device] = 0]
    ELSE devValue

\* _execute_command: the device values after the command.
ExecuteCommand(cmd) ==
    IF Outcome(cmd) = "ok"
    THEN [devValue EXCEPT ![cmd.device] = MethodEffect(cmd.method, @)]
    ELSE devValue

\* A get() that took the newest item instead of the oldest.
QueueGetLifo(q) == [item |-> q[Len(q)], rest |-> SubSeq(q, 1, Len(q) - 1)]

\* The item inbound_command_queue.get() returns, and what it leaves.
QueueGet(q) == [item |-> Head(q), rest |-> Tail(q)]

\* while self._worker_running.is_set()
WorkerCheck(t) ==
    /\ threads[t].pc = "check"
    /\ threads' = SetPc(t, IF worker_running THEN "get" ELSE "dead", NoneItem)
    /\ UNCHANGED regVars
    /\ UNCHANGED pubVars
    /\ UNCHANGED << mainVars, codecVars, taskVars, bootVars >>
    /\ UNCHANGED << devValue, queue, unfinished, worker_running,
                    worker_thread, pcCtl, lastLog, calls, nextId, handled,
                    sentinelAt, submittedRunning >>
    /\ UNCHANGED eventVars

\* command = self.inbound_command_queue.get(timeout=0.1), an item is there.
WorkerGet(t) ==
    /\ threads[t].pc = "get"
    /\ queue # << >>
    /\ queue' = QueueGet(queue).rest
    /\ threads' = SetPc(t, IF IsNone(QueueGet(queue).item) THEN "sentinel"
                           ELSE "exec", QueueGet(queue).item)
    /\ UNCHANGED regVars
    /\ UNCHANGED pubVars
    /\ UNCHANGED << mainVars, codecVars, taskVars, bootVars >>
    /\ UNCHANGED << devValue, unfinished, worker_running, worker_thread,
                    pcCtl, lastLog, calls, nextId, handled, sentinelAt,
                    submittedRunning >>
    /\ UNCHANGED eventVars

\* The get timed out on an empty queue: queue.Empty, loop again.
WorkerGetTimeout(t) ==
    /\ threads[t].pc = "get"
    /\ queue = << >>
    /\ threads' = SetPc(t, "check", NoneItem)
    /\ UNCHANGED regVars
    /\ UNCHANGED pubVars
    /\ UNCHANGED << mainVars, codecVars, taskVars, bootVars >>
    /\ UNCHANGED << devValue, queue, unfinished, worker_running,
                    worker_thread, pcCtl, lastLog, calls, nextId, handled,
                    sentinelAt, submittedRunning >>
    /\ UNCHANGED eventVars

\* The sentinel branch: task_done() and break.
WorkerSentinel(t) ==
    /\ threads[t].pc = "sentinel"
    /\ unfinished' = unfinished - 1
    /\ threads' = SetPc(t, "dead", NoneItem)
    /\ UNCHANGED regVars
    /\ UNCHANGED pubVars
    /\ UNCHANGED << mainVars, codecVars, taskVars, bootVars >>
    /\ UNCHANGED << devValue, queue, worker_running, worker_thread, pcCtl,
                    lastLog, calls, nextId, handled, sentinelAt,
                    submittedRunning >>
    /\ UNCHANGED eventVars

\* Without the except around the call the exception would end the thread.
AfterExecuteUncaught(outcome) == IF outcome = "raised" THEN "dead" ELSE "ack"

\* A handler that went back to the loop test without task_done().
AfterExecuteNoAck(outcome) == IF outcome = "ok" THEN "ack" ELSE "check"

\* Where the worker goes after _execute_command, whatever its outcome: the
\* inner try/except swallows every exception and task_done() follows.
AfterExecute(outcome) == "ack"

\* try: self._execute_command(command) except Exception: log
WorkerExecute(t) ==
    /\ threads[t].pc = "exec"
    /\ devValue' = ExecuteCommand(threads[t].cmd)
    /\ handled' = Append(handled,
                    [id |-> threads[t].cmd.id,
                     method |-> threads[t].cmd.method,
                     outcome |-> Outcome(threads[t].cmd),
                     after |-> IF threads[t].cmd.device \in DOMAIN devValue
                               THEN devValue'[threads[t].cmd.device] ELSE -1])
    /\ threads' = SetPc(t, AfterExecute(Outcome(threads[t].cmd)),
                        threads[t].cmd)
    /\ registryAccess' = registryAccess \cup { ExecuteThread }
    /\ UNCHANGED << config, devices >>
    /\ UNCHANGED pubVars
    /\ UNCHANGED << mainVars, codecVars, taskVars, bootVars >>
    /\ UNCHANGED << queue, unfinished, worker_running, worker_thread, pcCtl,
                    lastLog, calls, nextId, sentinelAt, submittedRunning >>
    /\ UNCHANGED eventVars

\* self.inbound_command_queue.task_done() after a command.
WorkerAck(t) ==
    /\ threads[t].pc = "ack"
    /\ unfinished' = unfinished - 1
    /\ threads' = SetPc(t, "check", NoneItem)
    /\ UNCHANGED regVars
    /\ UNCHANGED pubVars
    /\ UNCHANGED << mainVars, codecVars, taskVars, bootVars >>
    /\ UNCHANGED << devValue, queue, worker_running, worker_thread, pcCtl,
                    lastLog, calls, nextId, handled, sentinelAt,
                    submittedRunning >>
    /\ UNCHANGED eventVars

\* One step of _worker_loop in some worker thread.
WorkerStep ==
    \E t \in 1..Len(threads) :
        \/ WorkerCheck(t)
        \/ WorkerGet(t)
        \/ WorkerGetTimeout(t)
        \/ WorkerSentinel(t)
        \/ WorkerExecute(t)
        \/ WorkerAck(t)

\* ------------------------------------------------------------------ events
\* The parameters of generic_event_handler after self.
HandlerParams == << "device_name", "device", "action" >>

\* functools.partial(self.generic_event_handler, "button_27", button,
\* event=kind): two positional arguments and one keyword argument.
Partial(name, kind) ==
    [name |-> name, npos |-> 2, kwnames |-> {"event"}, kind |-> kind]

\* Calling the partial binds its arguments to the handler's parameters: a
\* keyword that names no free parameter, or a free parameter left without
\* an argument, is a TypeError.
BindRaises(cb) ==
    LET free == { HandlerParams[i] : i \in (cb.npos + 1)..Len(HandlerParams) }
    IN  cb.kwnames # free

\* The attributes __init__ sets on the manager.
InstanceAttrs ==
    { "config", "async_loop", "devices", "inbound_command_queue",
      "_worker_thread", "_worker_running", "_publish_hardware_event",
      "_publish_callback" }

\* DeviceStatePayload(device=device_name, event=action, value=device.value)
\* A Python value with its type: the value field is declared Any. The
\* value of the number 1 is written "1", of True "True", and so on.
Py(type, v) == [py |-> type, v |-> v]

\* The int value of a device, 0 or 1.
PyInt(n) == Py("int", IF n = 0 THEN "0" ELSE "1")

\* DeviceStatePayload(device=..., event=..., value=...)
DeviceStatePayload(device, event, value) ==
    [type |-> "DeviceState", device |-> device, event |-> event,
     value |-> value]

\* generic_event_handler called through a registered partial: what it logs
\* and what it hands to call_soon_threadsafe.
\* A handler, bound by position, that called publish_hardware_event itself.
HandlerResultDirect(cb, value) ==
    [log |-> "event_published", handoff |-> << >>,
     direct |-> << DeviceStatePayload(cb.name, cb.kind, PyInt(value)) >>]

\* generic_event_handler called through a registered partial: what it logs,
\* what it hands to call_soon_threadsafe and what it puts on the event queue
\* itself (nothing: the handler never touches the queue).
HandlerResult(cb, value) ==
    IF BindRaises(cb)
    THEN [log |-> "TypeError", handoff |-> << >>, direct |-> << >>]
    ELSE IF "publish_callback" \notin InstanceAttrs
    THEN [log |-> "error_publishing", handoff |-> << >>, direct |-> << >>]
    ELSE [log |-> "event_published",
          handoff |-> << DeviceStatePayload(cb.name, cb.kind, PyInt(value)) >>,
          direct |-> << >>]

\* event_queue.put_nowait(payload) for each of the payloads, on a thread.
PutNowait(payloads, thread) ==
    /\ event_queue' = event_queue \o
          [i \in 1..Len(payloads) |->
              [id |-> nextPid + i - 1, payload |-> payloads[i]]]
    /\ nextPid' = nextPid + Len(payloads)
    /\ event_unfinished' = event_unfinished + Len(payloads)
    /\ putThreads' = IF payloads = << >> THEN putThreads
                     ELSE putThreads \cup {thread}

\* setup_gpio_callbacks, the device library storing what it is given.
SetupCallbacksCall ==
    /\ callbacks = {}
    /\ eventLog = "none"
    /\ IF "button_27" \in RegistryNames(devices)
       THEN /\ callbacks' = { Partial("button_27", "pressed"),
                              Partial("button_27", "released") }
            /\ eventLog' = "configured"
       ELSE /\ callbacks' = {}
            /\ eventLog' = "no_device"
    /\ registryAccess' = registryAccess \cup { "caller" }
    /\ UNCHANGED << config, devices >>
    /\ UNCHANGED pubVars
    /\ UNCHANGED << scheduled, edges, cbThread >>
    /\ UNCHANGED execVars

\* setup_gpio_callbacks() called by a test or another caller.
SetupGpioCallbacks == SetupCallbacksCall /\ UNCHANGED << mainVars, codecVars, taskVars, bootVars >>

\* setup_gpio_callbacks, the device library checking the signature of the
\* handler it is given and raising on the first assignment.
SetupGpioCallbacksRejected ==
    /\ callbacks = {}
    /\ eventLog = "none"
    /\ "button_27" \in RegistryNames(devices)
    /\ BindRaises(Partial("button_27", "pressed"))
    /\ eventLog' = "bad_handler"
    /\ registryAccess' = registryAccess \cup { "caller" }
    /\ UNCHANGED << config, devices >>
    /\ UNCHANGED pubVars
    /\ UNCHANGED << mainVars, codecVars, taskVars, bootVars >>
    /\ UNCHANGED << callbacks, scheduled, edges, cbThread >>
    /\ UNCHANGED execVars

\* The button pin is driven to the other level; the device library calls
\* the callback bound to that edge, if one is bound.
Edge(kind) ==
    /\ edges < MaxEdges
    /\ "button_27" \in RegistryNames(devices)
    /\ devValue["button_27"] = (IF kind = "pressed" THEN 0 ELSE 1)
    /\ devValue' = [devValue EXCEPT !["button_27"] = 1 - @]
    /\ IF \E cb \in callbacks : cb.kind = kind
       THEN LET cb == CHOOSE c \in callbacks : c.kind = kind
                r == HandlerResult(cb, devValue'["button_27"])
            IN  /\ edges' = edges + 1
                /\ eventLog' = r.log
                /\ scheduled' = scheduled \o r.handoff
                /\ PutNowait(r.direct, "callback")
       ELSE UNCHANGED << edges, eventLog, scheduled, queueVars >>
    /\ UNCHANGED regVars
    /\ UNCHANGED << sessVars, stopVars >>
    /\ UNCHANGED << mainVars, codecVars, taskVars, bootVars >>
    /\ UNCHANGED << callbacks, cbThread, queue, unfinished, worker_running,
                    worker_thread, threads, pcCtl, lastLog, calls, nextId,
                    handled, sentinelAt, submittedRunning >>

EdgePressed == Edge("pressed")

EdgeReleased == Edge("released")

\* ------------------------------------------- the two threads on one device
\* A command on the input device: wait_for_press() returns once the button
\* is pressed.
ButtonCommandKinds == { [device |-> "button_27", method |-> "wait_for_press"] }

SubmitButton == SubmitOf(ButtonCommandKinds)

\* _execute_command up to the call: the device and the method were found and
\* the worker is inside method_to_call(*args, **kwargs).
WorkerCallBegin(t) ==
    /\ threads[t].pc = "exec"
    /\ Outcome(threads[t].cmd) = "ok"
    /\ threads' = SetPc(t, "call", threads[t].cmd)
    /\ registryAccess' = registryAccess \cup { ExecuteThread }
    /\ UNCHANGED << config, devices >>
    /\ UNCHANGED pubVars
    /\ UNCHANGED << mainVars, codecVars, taskVars, bootVars >>
    /\ UNCHANGED << devValue, queue, unfinished, worker_running,
                    worker_thread, pcCtl, lastLog, calls, nextId, handled,
                    sentinelAt, submittedRunning >>
    /\ UNCHANGED eventVars

\* method_to_call() returns; wait_for_press() only once the button is held.
WorkerCallEnd(t) ==
    /\ threads[t].pc = "call"
    /\ threads[t].cmd.method = "wait_for_press"
           => devValue[threads[t].cmd.device] = 1
    /\ devValue' = ExecuteCommand(threads[t].cmd)
    /\ handled' = Append(handled,
                    [id |-> threads[t].cmd.id,
                     method |-> threads[t].cmd.method,
                     outcome |-> "ok",
                     after |-> devValue'[threads[t].cmd.device]])
    /\ threads' = SetPc(t, AfterExecute("ok"), threads[t].cmd)
    /\ UNCHANGED regVars
    /\ UNCHANGED pubVars
    /\ UNCHANGED << mainVars, codecVars, taskVars, bootVars >>
    /\ UNCHANGED << queue, unfinished, worker_running, worker_thread, pcCtl,
                    lastLog, calls, nextId, sentinelAt, submittedRunning >>
    /\ UNCHANGED eventVars

\* _execute_command on a command it rejects or whose call raises at once.
WorkerExecuteFails(t) ==
    /\ Outcome(threads[t].cmd) # "ok"
    /\ WorkerExecute(t)

\* The button pin is driven to the other level and the device library's
\* thread enters the callback bound to that edge.
EdgeBegin(kind) ==
    /\ edges < MaxEdges
    /\ cbThread = NoCallback
    /\ "button_27" \in RegistryNames(devices)
    /\ \E cb \in callbacks : cb.kind = kind
    /\ devValue["button_27"] = (IF kind = "pressed" THEN 0 ELSE 1)
    /\ devValue' = [devValue EXCEPT !["button_27"] = 1 - @]
    /\ edges' = edges + 1
    /\ cbThread' = [name |-> "button_27", kind |-> kind]
    /\ UNCHANGED regVars
    /\ UNCHANGED pubVars
    /\ UNCHANGED << mainVars, codecVars, taskVars, bootVars >>
    /\ UNCHANGED << callbacks, scheduled, eventLog, queue, unfinished,
                    worker_running, worker_thread, threads, pcCtl, lastLog,
                    calls, nextId, handled, sentinelAt, submittedRunning >>

\* The callback returns, or raises, on the device library's thread.
EdgeEnd ==
    /\ cbThread # NoCallback
    /\ LET cb == CHOOSE c \in callbacks : c.kind = cbThread.kind
           r == HandlerResult(cb, devValue[cbThread.name])
       IN  /\ eventLog' = r.log
           /\ scheduled' = scheduled \o r.handoff
           /\ PutNowait(r.direct, "callback")
    /\ cbThread' = NoCallback
    /\ UNCHANGED regVars
    /\ UNCHANGED << sessVars, stopVars >>
    /\ UNCHANGED << mainVars, codecVars, taskVars, bootVars >>
    /\ UNCHANGED << callbacks, edges >>
    /\ UNCHANGED execVars

\* --------------------------------------------------------------- payloads
\* SystemStatusPayload(status=...)
SystemStatusPayload(status) == [type |-> "SystemStatus", status |-> status]

\* TelemetryPayload(status=...), cpu_temp and uptime left at their defaults.
TelemetryPayload(status) ==
    [type |-> "Telemetry", status |-> status, cpu_temp |-> 0, uptime |-> 0]

\* LogPayload(level=..., module=..., message=...)
LogPayload(level) ==
    [type |-> "Log", level |-> level, module |-> "hw", message |-> "m"]

\* The payloads callers on the loop thread give to publish_hardware_event:
\* the telemetry loop's, the two device events of the tests, and a payload
\* of a variant _publisher_loop has no branch for.
Payloads ==
    { TelemetryPayload("running"),
      DeviceStatePayload("button_27", "state", Py("str", "pressed")),
      DeviceStatePayload("test_led", "active", Py("bool", "True")),
      LogPayload("info") }

\* publish_hardware_event(payload) called on the loop thread.
PublishHardwareEvent(payload) ==
    /\ nextPid <= MaxPayloads
    /\ PutNowait(<< payload >>, "loop")
    /\ UNCHANGED << sessVars, stopVars >>
    /\ UNCHANGED hwVars
    /\ UNCHANGED << mainVars, codecVars, taskVars, bootVars >>

Enqueue == \E payload \in Payloads : PublishHardwareEvent(payload)

\* -------------------------------------------------------------- publisher
\* The routing configuration __init__ reads, at its defaults; a topic is the
\* sequence of its pieces, "{device}" being the placeholder of the template.
topic_template == << "pi/devices/", "{device}", "/state" >>

status_topic == << "pi/status" >>

telemetry_topic == << "pi/system/telemetry" >>

\* self.topic_template.format(device=...): every placeholder is replaced.
Format(template, device) ==
    [i \in 1..Len(template) |->
        IF template[i] = "{device}" THEN device ELSE template[i]]

\* The topic no branch of _publisher_loop assigns.
NoTopic == << >>

\* A publish sub-loop that sent telemetry to the status topic.
RouteTelemetryToStatus(payload) ==
    CASE payload.type = "DeviceState"  ->
             Format(topic_template, payload.device)
      [] payload.type = "Telemetry"    -> status_topic
      [] payload.type = "SystemStatus" -> status_topic
      [] OTHER                         -> NoTopic

\* The isinstance chain of _publisher_loop.
Route(payload) ==
    CASE payload.type = "DeviceState"  ->
             Format(topic_template, payload.device)
      [] payload.type = "Telemetry"    -> telemetry_topic
      [] payload.type = "SystemStatus" -> status_topic
      [] OTHER                         -> NoTopic

\* The fields asdict() lists for each variant after the timestamp, in the
\* order the dataclass declares them.
Fields(type) ==
    CASE type = "DeviceState"  -> << "device", "event", "value" >>
      [] type = "Telemetry"    -> << "status", "cpu_temp", "uptime" >>
      [] type = "SystemStatus" -> << "status" >>
      [] type = "Log"          -> << "level", "module", "message" >>
      [] OTHER                 -> << >>

\* The keys of asdict(payload): the field of BasePayload first. The
\* payloads of the publisher's behaviours are kept without their timestamp.
AsdictKeys(payload) ==
    (IF "timestamp" \in DOMAIN payload THEN << "timestamp" >> ELSE << >>)
        \o Fields(payload.type)

\* The Python value of a field: timestamp, cpu_temp and uptime are floats,
\* value is whatever the caller gave, every other field is a str (the
\* SystemStatus enum is a str subclass).
FieldValue(payload, key) ==
    IF key = "value" THEN payload.value
    ELSE IF key \in {"timestamp", "cpu_temp", "uptime"}
    THEN Py("float", payload[key])
    ELSE Py("str", payload[key])

\* json.dumps of one value: the JSON text, as its kind and its content.
\* A float is written with a decimal point, an int without.
JsonDumps(x) ==
    CASE x.py = "bool"  -> [json |-> "literal", point |-> FALSE,
                            text |-> IF x.v = "True" THEN "true"
                                     ELSE "false"]
      [] x.py = "int"   -> [json |-> "number", point |-> FALSE, text |-> x.v]
      [] x.py = "float" -> [json |-> "number", point |-> TRUE, text |-> x.v]
      [] x.py = "str"   -> [json |-> "string", point |-> FALSE, text |-> x.v]

\* The values json.dumps has an encoding for; any other, a set or a device
\* object for one, makes it raise TypeError.
Serializable(x) == x.py \in {"bool", "int", "float", "str"}

\* json.loads of one value.
JsonLoads(j) ==
    CASE j.json = "literal" ->
             Py("bool", IF j.text = "true" THEN "True" ELSE "False")
      [] j.json = "number"  -> Py(IF j.point THEN "float" ELSE "int", j.text)
      [] j.json = "string"  -> Py("str", j.text)

\* A to_bytes() that took the timestamp when it encoded.
ToBytesStampedNow(payload) ==
    [i \in 1..Len(AsdictKeys(payload)) |->
        << AsdictKeys(payload)[i],
           IF AsdictKeys(payload)[i] = "timestamp"
           THEN JsonDumps(Py("float", clock))
           ELSE JsonDumps(FieldValue(payload, AsdictKeys(payload)[i])) >>]

\* to_bytes(): the JSON object of asdict(), as its key/value pairs in order.
\* The class of the payload is not part of it.
ToBytes(payload) ==
    [i \in 1..Len(AsdictKeys(payload)) |->
        << AsdictKeys(payload)[i],
           JsonDumps(FieldValue(payload, AsdictKeys(payload)[i])) >>]

\* to_bytes() raises: json.dumps meets a value it cannot encode.
ToBytesRaises(payload) ==
    \E i \in 1..Len(AsdictKeys(payload)) :
        ~Serializable(FieldValue(payload, AsdictKeys(payload)[i]))

\* json.loads(bytes): the dict of the decoded object.
FromBytes(bytes) ==
    [k \in { bytes[i][1] : i \in 1..Len(bytes) } |->
        JsonLoads(bytes[CHOOSE i \in 1..Len(bytes) : bytes[i][1] = k][2])]

\* Will(topic=status_topic, payload=offline, qos=1, retain=True)
LastWill ==
    [topic |-> status_topic,
     payload |-> ToBytes(SystemStatusPayload("offline")),
     qos |-> 1, retain |-> TRUE]

\* What the broker receives from client.publish(topic, payload, retain=...)
\* for the queue entry id (0: not from the queue) on the current connection.
Message(topic, payload, retain, id) ==
    [topic |-> topic, payload |-> payload, qos |-> 0, retain |-> retain,
     conn |-> conn, id |-> id]

\* task.cancel() has been called and the task has not been resumed since:
\* its next resumption raises CancelledError instead of going on.
CancelPending == pcStop = "cancel"

\* MQTTManager.start(): create_task(self._main_loop()).
MqttStart ==
    /\ main_task = "none"
    /\ pcStop = "idle"
    /\ pcShutdown = "none"
    /\ main_task' = "connect"
    /\ UNCHANGED << held, conn, brokerUp, linkUp, published, wills, pubLog >>
    /\ UNCHANGED << queueVars, stopVars >>
    /\ UNCHANGED hwVars

\* start() awaited by a test or another caller.
PubStart == MqttStart /\ UNCHANGED << mainVars, codecVars, taskVars, bootVars >>

\* async with MQTTClient(..., will=lastWill): the connection attempt.
MainLoopConnect ==
    /\ main_task = "connect"
    /\ ~CancelPending
    /\ wills' = wills \cup {LastWill}
    /\ IF brokerUp
       THEN /\ conn' = conn + 1
            /\ linkUp' = TRUE
            /\ main_task' = "online"
            /\ UNCHANGED pubLog
       ELSE /\ main_task' = "sleep"
            /\ pubLog' = "connection_lost"
            /\ UNCHANGED << conn, linkUp >>
    /\ UNCHANGED << held, brokerUp, published >>
    /\ UNCHANGED << queueVars, stopVars >>
    /\ UNCHANGED hwVars
    /\ UNCHANGED << mainVars, codecVars, taskVars, bootVars >>

\* A main loop that went to the publish sub-loop without the online status.
AfterConnectSilent(ok) ==
    [main_task |-> IF ok THEN "get" ELSE "sleep", sent |-> << >>]

\* await client.publish(status_topic, online, retain=True): the message the
\* broker receives and where the task goes; a dead link raises.
AfterConnect(ok) ==
    [main_task |-> IF ok THEN "get" ELSE "sleep",
     sent |-> IF ok
              THEN << Message(status_topic,
                              ToBytes(SystemStatusPayload("online")),
                              TRUE, 0) >>
              ELSE << >>]

MainLoopOnline ==
    /\ main_task = "online"
    /\ ~CancelPending
    /\ main_task' = AfterConnect(linkUp).main_task
    /\ published' = published \o AfterConnect(linkUp).sent
    /\ pubLog' = IF main_task' = "sleep" THEN "connection_lost"
                 ELSE "connected"
    /\ UNCHANGED << held, conn, brokerUp, linkUp, wills >>
    /\ UNCHANGED << queueVars, stopVars >>
    /\ UNCHANGED hwVars
    /\ UNCHANGED << mainVars, codecVars, taskVars, bootVars >>

\* An event_queue.get() that returned the newest entry.
EventGetLifo(q) == [item |-> q[Len(q)], rest |-> SubSeq(q, 1, Len(q) - 1)]

\* The entry event_queue.get() returns, and what it leaves.
EventGet(q) == [item |-> Head(q), rest |-> Tail(q)]

\* event = await self.event_queue.get(), then the isinstance chain and
\* to_bytes(): an entry no branch routes is dropped by the continue, which
\* logs nothing and does not reach task_done(); an entry to_bytes() raises
\* on is lost with the exception, which leaves both loops and the
\* `async with`, closing the connection, for the retry branch of _main_loop.
PublisherGet ==
    /\ main_task = "get"
    /\ ~CancelPending
    /\ event_queue # << >>
    /\ event_queue' = EventGet(event_queue).rest
    /\ IF Route(EventGet(event_queue).item.payload) = NoTopic
       THEN UNCHANGED << main_task, held, linkUp, pubLog >>
       ELSE IF ToBytesRaises(EventGet(event_queue).item.payload)
       THEN /\ main_task' = "sleep"
            /\ linkUp' = FALSE
            /\ pubLog' = "connection_lost"
            /\ UNCHANGED held
       ELSE /\ held' = EventGet(event_queue).item
            /\ main_task' = "publish"
            /\ UNCHANGED << linkUp, pubLog >>
    /\ UNCHANGED << conn, brokerUp, published, wills >>
    /\ UNCHANGED << putThreads, nextPid, event_unfinished, stopVars >>
    /\ UNCHANGED hwVars
    /\ UNCHANGED << mainVars, codecVars, taskVars, bootVars >>

\* await client.publish(topic=message.topic, payload=message.message), then
\* event_queue.task_done(): on a dead link publish raises, and the exception
\* leaves both loops with the entry and without the task_done().
PublisherPublish ==
    /\ main_task = "publish"
    /\ ~CancelPending
    /\ IF linkUp
       THEN /\ published' = Append(published,
                   Message(Route(held.payload), ToBytes(held.payload),
                           FALSE, held.id))
            /\ main_task' = "get"
            /\ pubLog' = "published"
       ELSE /\ main_task' = "sleep"
            /\ pubLog' = "connection_lost"
            /\ UNCHANGED published
    /\ held' = NoEntry
    /\ UNCHANGED << conn, brokerUp, linkUp, wills >>
    /\ event_unfinished' = IF linkUp THEN event_unfinished - 1
                           ELSE event_unfinished
    /\ UNCHANGED << event_queue, putThreads, nextPid, stopVars >>
    /\ UNCHANGED hwVars
    /\ UNCHANGED << mainVars, codecVars, taskVars, bootVars >>

\* A main loop that went back to the publish sub-loop after the delay
\* without connecting again.
MainLoopRetryNoConnect ==
    /\ main_task = "sleep"
    /\ ~CancelPending
    /\ main_task' = "get"
    /\ pubLog' = pubLog
    /\ UNCHANGED << held, conn, brokerUp, linkUp, published, wills >>
    /\ UNCHANGED << queueVars, stopVars >>
    /\ UNCHANGED hwVars
    /\ UNCHANGED << mainVars, codecVars, taskVars, bootVars >>

\* A main loop that let the exception end the task instead of retrying.
MainLoopGiveUp ==
    /\ main_task = "sleep"
    /\ ~CancelPending
    /\ main_task' = "failed"
    /\ UNCHANGED << held, conn, brokerUp, linkUp, published, wills, pubLog >>
    /\ UNCHANGED << queueVars, stopVars >>
    /\ UNCHANGED hwVars
    /\ UNCHANGED << mainVars, codecVars, taskVars, bootVars >>

\* except Exception: await asyncio.sleep(5) is over, back to while True.
MainLoopRetry ==
    /\ main_task = "sleep"
    /\ ~CancelPending
    /\ main_task' = "connect"
    /\ UNCHANGED << held, conn, brokerUp, linkUp, published, wills, pubLog >>
    /\ UNCHANGED << queueVars, stopVars >>
    /\ UNCHANGED hwVars
    /\ UNCHANGED << mainVars, codecVars, taskVars, bootVars >>

\* The broker becomes unreachable; a connection it held is gone for good.
BrokerDown ==
    /\ brokerUp
    /\ conn < MaxConns
    /\ brokerUp' = FALSE
    /\ linkUp' = FALSE
    /\ UNCHANGED << main_task, held, conn, published, wills, pubLog >>
    /\ UNCHANGED << queueVars, stopVars >>
    /\ UNCHANGED hwVars
    /\ UNCHANGED << mainVars, codecVars, taskVars, bootVars >>

\* The broker accepts connections again.
BrokerUp ==
    /\ ~brokerUp
    /\ brokerUp' = TRUE
    /\ UNCHANGED << main_task, held, conn, linkUp, published, wills, pubLog >>
    /\ UNCHANGED << queueVars, stopVars >>
    /\ UNCHANGED hwVars
    /\ UNCHANGED << mainVars, codecVars, taskVars, bootVars >>

\* MQTTManager.stop() up to its await: nothing to do without a task,
\* otherwise self._main_task.cancel().
PubStopCall ==
    /\ pcStop = "idle"
    /\ pcStop' = IF main_task = "none" THEN "returned" ELSE "cancel"

\* stop() called on its own, as the tests do to clean up.
PubStop ==
    /\ pcShutdown = "none"
    /\ PubStopCall
    /\ UNCHANGED << pcShutdown, cancelledIn >>
    /\ UNCHANGED << queueVars, sessVars >>
    /\ UNCHANGED hwVars
    /\ UNCHANGED << mainVars, codecVars, taskVars, bootVars >>

\* A CancelledError that `except Exception` would catch: the task takes the
\* retry branch unless it is already in it.
AfterCancelSwallowed(pc) == IF pc = "sleep" THEN "cancelled" ELSE "sleep"

\* Where CancelledError leaves the task: `except asyncio.CancelledError:
\* raise` inside the try, nothing to catch it inside the except branch.
AfterCancel(pc) == "cancelled"

\* The task is resumed with CancelledError at the await it was suspended
\* in; leaving the `async with` closes the connection.
TaskCancelled ==
    /\ CancelPending
    /\ main_task' = AfterCancel(main_task)
    /\ held' = NoEntry
    /\ linkUp' = FALSE
    /\ pcStop' = "await"
    /\ cancelledIn' = main_task
    /\ UNCHANGED << conn, brokerUp, published, wills, pubLog, pcShutdown >>
    /\ UNCHANGED queueVars
    /\ UNCHANGED hwVars
    /\ UNCHANGED << mainVars, codecVars, taskVars, bootVars >>

\* stop(): `await self._main_task` raises CancelledError once the task is
\* done, which stop() logs as a graceful stop.
PubStopReturn ==
    /\ pcStop = "await"
    /\ main_task = "cancelled"
    /\ pcStop' = "returned"
    /\ UNCHANGED << pcShutdown, cancelledIn >>
    /\ UNCHANGED << queueVars, sessVars >>
    /\ UNCHANGED hwVars
    /\ UNCHANGED << mainVars, codecVars, taskVars, bootVars >>

\* start() awaited again after a stop() that has returned: a new task runs
\* _main_loop from its beginning.
PubRestart ==
    /\ main_task = "cancelled"
    /\ pcStop = "returned"
    /\ pcShutdown = "none"
    /\ conn < MaxConns
    /\ main_task' = "connect"
    /\ pcStop' = "idle"
    /\ cancelledIn' = "none"
    /\ UNCHANGED << held, conn, brokerUp, linkUp, published, wills, pubLog,
                    pcShutdown >>
    /\ UNCHANGED queueVars
    /\ UNCHANGED hwVars
    /\ UNCHANGED << mainVars, codecVars, taskVars, bootVars >>

\* shutdown(): the goodbye telemetry and the offline status are enqueued.
ShutdownBegin ==
    /\ pcShutdown = "none"
    /\ pcStop = "idle"
    /\ main_task # "none"
    /\ PutNowait(<< TelemetryPayload("shutting_down"),
                    SystemStatusPayload("offline") >>, "loop")
    /\ pcShutdown' = "flush"
    /\ UNCHANGED << pcStop, cancelledIn >>
    /\ UNCHANGED sessVars
    /\ UNCHANGED hwVars
    /\ opLog' = Append(opLog, Call("publish_goodbye_and_offline", ""))
    /\ UNCHANGED << pcMain, telemetry_task, codecVars, taskVars, bootVars >>

\* asyncio.sleep(0.1) is over: the session task has done what it could do
\* at once and is waiting, for a payload or for the end of its 5 s delay.
FlushDelayOver ==
    \/ main_task = "sleep"
    \/ main_task = "get" /\ event_queue = << >>

\* shutdown(): after the delay, await mqtt_manager.stop().
ShutdownStop ==
    /\ pcShutdown = "flush"
    /\ FlushDelayOver
    /\ PubStopCall
    /\ pcShutdown' = "stopping"
    /\ UNCHANGED cancelledIn
    /\ UNCHANGED << queueVars, sessVars >>
    /\ UNCHANGED hwVars
    /\ opLog' = Append(opLog, Call("mqtt_manager.stop", ""))
    /\ UNCHANGED << pcMain, telemetry_task, codecVars, taskVars, bootVars >>

\* shutdown(): mqtt_manager.stop() has returned.
ShutdownStopped ==
    /\ pcShutdown = "stopping"
    /\ pcStop = "returned"
    /\ pcShutdown' = "mqtt_stopped"
    /\ UNCHANGED << pcStop, cancelledIn >>
    /\ UNCHANGED << queueVars, sessVars >>
    /\ UNCHANGED hwVars
    /\ opLog' = Append(opLog, Call("mqtt_manager.stop returned", ""))
    /\ UNCHANGED << pcMain, telemetry_task, codecVars, taskVars, bootVars >>

\* One step of the task running _main_loop.
MainTaskStep ==
    \/ MainLoopConnect
    \/ MainLoopOnline
    \/ PublisherGet
    \/ PublisherPublish
    \/ MainLoopRetry
    \/ TaskCancelled

\* ----------------------------------------------------------------- encoding
\* The values a DeviceStatePayload is given: the int value of an LED or a
\* Button, the float value of a Motor, and the bool and the str of the tests.
CodecValues ==
    { PyInt(0), PyInt(1), Py("float", "1.0"), Py("bool", "True"),
      Py("str", "pressed") }

CodecDevices == {"d1", "button_27"}

CodecEvents == {"activated", "state"}

\* The dataclass instance: the fields given, and timestamp from the
\* default_factory time.time at construction.
Timestamped(payload, t) ==
    [k \in DOMAIN payload \cup {"timestamp"} |->
        IF k = "timestamp" THEN t ELSE payload[k]]

\* time.time() moves on.
ClockTick ==
    /\ clock < MaxClock
    /\ clock' = clock + 1
    /\ UNCHANGED << obj, wire >>
    /\ UNCHANGED << hwVars, pubVars, mainVars, taskVars, bootVars >>

\* A caller constructs DeviceStatePayload(device=d, event=e, value=v).
Construct ==
    /\ obj = NoObj
    /\ \E d \in CodecDevices, e \in CodecEvents, v \in CodecValues :
          obj' = Timestamped(DeviceStatePayload(d, e, v), clock)
    /\ UNCHANGED << clock, wire >>
    /\ UNCHANGED << hwVars, pubVars, mainVars, taskVars, bootVars >>

\* The payload is encoded and published as _publisher_loop does:
\* client.publish(topic, event.to_bytes(), ...) with the topic of its branch.
Encode ==
    /\ obj # NoObj
    /\ Len(wire) < MaxEncodes
    /\ wire' = Append(wire, [topic |-> Route(obj), payload |-> ToBytes(obj)])
    /\ UNCHANGED << clock, obj >>
    /\ UNCHANGED << hwVars, pubVars, mainVars, taskVars, bootVars >>

\* ------------------------------------------------------------ orchestrator
\* The process before main_application_runner has constructed anything.
InitProcess ==
    /\ devices = {}
    /\ registryAccess = {}
    /\ devValue = [n \in {} |-> 0]
    /\ queue = << >>
    /\ unfinished = 0
    /\ worker_running = FALSE
    /\ worker_thread = 0
    /\ threads = << >>
    /\ pcCtl = "idle"
    /\ lastLog = "none"
    /\ calls = 0
    /\ nextId = 1
    /\ handled = << >>
    /\ sentinelAt = -1
    /\ submittedRunning = {}
    /\ callbacks = {}
    /\ edges = 0
    /\ scheduled = << >>
    /\ eventLog = "none"
    /\ cbThread = NoCallback
    /\ InitPublisher
    /\ telemetry_task = "none"
    /\ opLog = << >>
    /\ InitCodec
    /\ NoTasks

\* main_application_runner at its first statement: nothing constructed, the
\* configuration loaded.
InitMain ==
    /\ config = DefaultConfig
    /\ pcMain = "MQTTManager"
    /\ NoBoot
    /\ InitProcess

\* The orchestrator makes a call and goes on to the next statement.
MainDoes(from, to, call) ==
    /\ pcMain = from
    /\ pcMain' = to
    /\ opLog' = Append(opLog, call)
    /\ UNCHANGED << codecVars, taskVars, bootVars >>

\* main_application_runner goes from one call to the next.
MainGoes(from, to, arg) == MainDoes(from, to, Call(from, arg))

\* mqtt_manager = MQTTManager(event_queue=event_queue, config=config)
MainConstructPublisher ==
    /\ MainGoes("MQTTManager", "HardwareManager", "")
    /\ UNCHANGED << telemetry_task, pubVars, hwVars >>

\* A HardwareManager constructed without the publisher's entry point.
MainConstructExecutorUnwired ==
    /\ MainGoes("HardwareManager", "initialize_gpio_devices", "")
    /\ UNCHANGED << telemetry_task, pubVars, hwVars >>

\* hardware_manager = HardwareManager(async_loop=loop,
\*     publish_callback=mqtt_manager.publish_hardware_event, config=config)
MainConstructExecutor ==
    /\ MainGoes("HardwareManager", "initialize_gpio_devices",
                "publish_hardware_event")
    /\ UNCHANGED << telemetry_task, pubVars, hwVars >>

\* hardware_manager.initialize_gpio_devices()
MainInitialize ==
    /\ MainGoes("initialize_gpio_devices", "setup_gpio_callbacks", "")
    /\ devices' = InitializeGpioDevices(devices, config)
    /\ devValue' = [n \in RegistryNames(devices') |-> 0]
    /\ UNCHANGED << config, registryAccess, queue, unfinished,
                    worker_running, worker_thread, threads, pcCtl, lastLog,
                    calls, nextId, handled, sentinelAt, submittedRunning >>
    /\ UNCHANGED << eventVars, telemetry_task, pubVars >>

\* hardware_manager.setup_gpio_callbacks()
MainSetupCallbacks ==
    /\ MainGoes("setup_gpio_callbacks", "start_worker_thread", "")
    /\ SetupCallbacksCall
    /\ UNCHANGED telemetry_task

\* hardware_manager.start_worker_thread()
MainStartWorker ==
    /\ MainGoes("start_worker_thread", "mqtt_manager.start", "")
    /\ StartWorkerThread
    /\ UNCHANGED telemetry_task

\* await mqtt_manager.start()
MainStartMqtt ==
    /\ MainGoes("mqtt_manager.start", "system_telemetry_loop", "")
    /\ MqttStart
    /\ UNCHANGED telemetry_task

\* telemetry_task = asyncio.create_task(system_telemetry_loop(...)), the
\* signal handlers, and the wait on a future that never completes.
MainStartTelemetry ==
    /\ MainGoes("system_telemetry_loop", "running", "")
    /\ telemetry_task' = "running"
    /\ UNCHANGED << pubVars, hwVars >>

\* The loop thread is running tasks: main_application_runner or shutdown()
\* is suspended in an await, not inside the blocking stop_worker_thread().
LoopYields ==
    \/ pcMain = "running" /\ pcShutdown \in {"none", "flush", "stopping"}
    \/ pcMain = "gather"

\* One pass of system_telemetry_loop.
TelemetryTick ==
    /\ LoopYields
    /\ telemetry_task = "running"
    /\ PublishHardwareEvent(TelemetryPayload("running"))

\* A termination signal: the handler creates the shutdown() task, which
\* runs up to its sleep.
MainSignal ==
    /\ pcMain = "running"
    /\ ShutdownBegin

\* A shutdown() that stopped the executor before the publisher.
ShutdownHwStopEarly ==
    /\ pcShutdown = "flush"
    /\ MainDoes("running", "stop_worker_thread", Call("stop_worker_thread", ""))
    /\ StopWorkerThread
    /\ UNCHANGED telemetry_task

\* shutdown(): hardware_manager.stop_worker_thread(), once stop() returned.
ShutdownHwStop ==
    /\ pcShutdown = "mqtt_stopped"
    /\ MainDoes("running", "stop_worker_thread", Call("stop_worker_thread", ""))
    /\ StopWorkerThread
    /\ UNCHANGED telemetry_task

\* shutdown(): every task but the current one is cancelled.
ShutdownCancelTasks ==
    /\ pcCtl = "idle"
    /\ MainDoes("stop_worker_thread", "gather", Call("cancel_tasks", ""))
    /\ telemetry_task' = IF telemetry_task = "running" THEN "cancel_pending"
                         ELSE telemetry_task
    /\ UNCHANGED << pubVars, hwVars >>

\* A telemetry loop that caught the cancellation and went on looping.
TelemetryIgnoresCancel ==
    /\ telemetry_task = "cancel_pending"
    /\ telemetry_task' = "running"
    /\ UNCHANGED << pcMain, opLog, pubVars, hwVars, codecVars, taskVars,
                    bootVars >>

\* system_telemetry_loop: except asyncio.CancelledError, the task ends.
TelemetryCancelled ==
    /\ telemetry_task = "cancel_pending"
    /\ telemetry_task' = "cancelled"
    /\ UNCHANGED << pcMain, opLog, pubVars, hwVars, codecVars, taskVars,
                    bootVars >>

\* shutdown(): gather(*tasks, return_exceptions=True) returns once every
\* task has ended, a cancelled one included.
ShutdownGathered ==
    /\ telemetry_task = "cancelled"
    /\ MainGoes("gather", "loop.stop", "")
    /\ UNCHANGED << telemetry_task, pubVars, hwVars >>

\* shutdown(): loop.stop()
ShutdownLoopStop ==
    /\ MainGoes("loop.stop", "stopped", "")
    /\ UNCHANGED << telemetry_task, pubVars, hwVars >>

\* ------------------------------------------------------------ specification
Next ==
    \/ Submit
    \/ Start
    \/ StopCall
    \/ StopPut
    \/ StopJoin
    \/ \E t \in 1..Len(threads) : WorkerCheck(t)
    \/ \E t \in 1..Len(threads) : WorkerGet(t)
    \/ \E t \in 1..Len(threads) : WorkerGetTimeout(t)
    \/ \E t \in 1..Len(threads) : WorkerSentinel(t)
    \/ \E t \in 1..Len(threads) : WorkerExecute(t)
    \/ \E t \in 1..Len(threads) : WorkerAck(t)

Spec == Init /\ [][Next]_vars

\* A started worker executing commands that name operations of the LED and
\* other attribute names.
NextDispatch ==
    \/ SubmitDispatch
    \/ Start
    \/ \E t \in 1..Len(threads) : WorkerCheck(t)
    \/ \E t \in 1..Len(threads) : WorkerGet(t)
    \/ \E t \in 1..Len(threads) : WorkerGetTimeout(t)
    \/ \E t \in 1..Len(threads) : WorkerExecute(t)
    \/ \E t \in 1..Len(threads) : WorkerAck(t)

SpecDispatch == Init /\ [][NextDispatch]_vars

\* The worker thread is scheduled, and a started stop() runs on: it puts its
\* sentinel and its join returns once the thread has ended.  Nothing obliges
\* a caller to call start() or stop(), or a producer to submit.
FairSpec ==
    /\ Init
    /\ [][Next]_vars
    /\ WF_vars(WorkerStep)
    /\ WF_vars(StopPut)
    /\ WF_vars(StopJoin)

\* The event side: any configuration, callbacks set up once, edges driven.
InitEvents ==
    /\ \E conf \in Configs : InitManager(conf)
    /\ InitPublisher
    /\ NoMain
    /\ InitCodec
    /\ NoTasks
    /\ NoBoot

NextEvents ==
    \/ SetupGpioCallbacks
    \/ SetupGpioCallbacksRejected
    \/ EdgePressed
    \/ EdgeReleased

SpecEvents == InitEvents /\ [][NextEvents]_vars

\* The two sources of payloads: callers of publish_hardware_event on the
\* loop thread, and edge callbacks on the device library's thread.
NextHandoff ==
    \/ SetupGpioCallbacks
    \/ SetupGpioCallbacksRejected
    \/ EdgePressed
    \/ EdgeReleased
    \/ Enqueue

SpecHandoff == Init /\ [][NextHandoff]_vars

\* The publisher: the session task, the callers of publish_hardware_event,
\* stop(), shutdown() and a broker that comes and goes.
NextPub ==
    \/ PubStart
    \/ Enqueue
    \/ MainLoopConnect
    \/ MainLoopOnline
    \/ PublisherGet
    \/ PublisherPublish
    \/ MainLoopRetry
    \/ BrokerDown
    \/ BrokerUp
    \/ PubStop
    \/ TaskCancelled
    \/ PubStopReturn
    \/ ShutdownBegin
    \/ ShutdownStop
    \/ ShutdownStopped

SpecPub == Init /\ [][NextPub]_vars

\* The loop runs its tasks: the session task is resumed whenever it can go
\* on, and a stop() or shutdown() that has begun runs on.  Nothing obliges
\* the broker to come back, a caller to enqueue, or anyone to stop.
FairPub ==
    /\ Init
    /\ [][NextPub]_vars
    /\ WF_vars(MainTaskStep)
    /\ WF_vars(PubStopReturn)
    /\ WF_vars(ShutdownStop)
    /\ WF_vars(ShutdownStopped)

\* The publisher, started again after it was stopped.
NextSession ==
    \/ NextPub
    \/ PubRestart

SpecSession == Init /\ [][NextSession]_vars

\* A payload constructed once and encoded more than once while time passes.
NextCodec ==
    \/ ClockTick
    \/ Construct
    \/ Encode

SpecCodec == Init /\ [][NextCodec]_vars

\* main.py: startup, then the worker thread, the session task and the
\* telemetry task running, then shutdown() on a signal.
NextMain ==
    \/ MainConstructPublisher
    \/ MainConstructExecutor
    \/ MainInitialize
    \/ MainSetupCallbacks
    \/ MainStartWorker
    \/ MainStartMqtt
    \/ MainStartTelemetry
    \/ TelemetryTick
    \/ LoopYields /\ MainLoopConnect
    \/ LoopYields /\ MainLoopOnline
    \/ LoopYields /\ PublisherGet
    \/ LoopYields /\ PublisherPublish
    \/ LoopYields /\ MainLoopRetry
    \/ LoopYields /\ TaskCancelled
    \/ BrokerDown
    \/ BrokerUp
    \/ \E t \in 1..Len(threads) : WorkerCheck(t)
    \/ \E t \in 1..Len(threads) : WorkerGet(t)
    \/ \E t \in 1..Len(threads) : WorkerGetTimeout(t)
    \/ \E t \in 1..Len(threads) : WorkerSentinel(t)
    \/ MainSignal
    \/ ShutdownStop
    \/ LoopYields /\ PubStopReturn
    \/ ShutdownStopped
    \/ ShutdownHwStop
    \/ StopPut
    \/ StopJoin
    \/ ShutdownCancelTasks
    \/ TelemetryCancelled
    \/ ShutdownGathered
    \/ ShutdownLoopStop

SpecMain == InitMain /\ [][NextMain]_vars

\* The session task as the loop runs it while main.py is in an await.
MainSessionStep == LoopYields /\ (MainTaskStep \/ TaskCancelled)

\* The code of main.py after an await or a call has returned.
MainStep ==
    \/ LoopYields /\ PubStopReturn
    \/ ShutdownStopped
    \/ ShutdownHwStop
    \/ StopPut
    \/ StopJoin
    \/ ShutdownCancelTasks
    \/ TelemetryCancelled
    \/ ShutdownGathered
    \/ ShutdownLoopStop

\* The loop runs what is ready and the worker thread is scheduled. Nothing
\* obliges a signal to arrive, the telemetry loop to wake or the broker to
\* come back. The 0.1 s delay of shutdown() ends whatever the session task
\* is doing, so a shutdown() that can go on again and again does go on.
FairMain ==
    /\ InitMain
    /\ [][NextMain]_vars
    /\ WF_vars(MainSessionStep)
    /\ WF_vars(MainStep)
    /\ SF_vars(ShutdownStop)
    /\ WF_vars(WorkerStep)

\* The executor and the device library's callback thread side by side: the
\* worker's call on a device is an interval, and so is a callback.
NextBridge ==
    \/ Submit
    \/ SubmitButton
    \/ Start
    \/ StopCall
    \/ StopPut
    \/ StopJoin
    \/ \E t \in 1..Len(threads) : WorkerCheck(t)
    \/ \E t \in 1..Len(threads) : WorkerGet(t)
    \/ \E t \in 1..Len(threads) : WorkerGetTimeout(t)
    \/ \E t \in 1..Len(threads) : WorkerSentinel(t)
    \/ \E t \in 1..Len(threads) : WorkerExecuteFails(t)
    \/ \E t \in 1..Len(threads) : WorkerCallBegin(t)
    \/ \E t \in 1..Len(threads) : WorkerCallEnd(t)
    \/ \E t \in 1..Len(threads) : WorkerAck(t)
    \/ SetupGpioCallbacks
    \/ EdgeBegin("pressed")
    \/ EdgeBegin("released")
    \/ EdgeEnd

SpecBridge == Init /\ [][NextBridge]_vars

\* ------------------------------------------------------------ properties
AliveThreads == { t \in 1..Len(threads) : Alive(t) }

\* The threads that hold an item they took and have not acknowledged.
InFlight ==
    { t \in 1..Len(threads) : threads[t].pc \in {"sentinel", "exec", "ack"} }

\* The threads that hold a command _execute_command has not handled yet.
Executing == { t \in 1..Len(threads) : threads[t].pc = "exec" }

IsHandled(id) == \E i \in 1..Len(handled) : handled[i].id = id

\* No stop() has been called so far.
NoStop == sentinelAt = -1 /\ pcCtl = "idle"

\* No stop() has been called since command id was submitted.
NoLaterStop(id) == id > sentinelAt /\ pcCtl = "idle"

IsFailure(cmd) == ~IsNone(cmd) /\ Outcome(cmd) # "ok"

\* The value an LED shows after a valid operation.
ExpectedValue(method) == IF method = "on" THEN 1 ELSE 0

\* C1: as long as no stop() is issued, commands are handled one at a time in
\* the order of their submission (handled, then the one in hand, then the
\* queue, count up 1, 2, 3, ...), and once every submitted command has been
\* handled the command queue is empty.
C1_SubmissionOrder ==
    NoStop =>
        /\ \A i \in 1..Len(handled) : handled[i].id = i
        /\ Cardinality(InFlight) <= 1
        /\ \A t \in Executing : threads[t].cmd.id = Len(handled) + 1
        /\ \A i \in 1..Len(queue) :
               queue[i].id = Len(handled) + Cardinality(Executing) + i
        /\ (Len(handled) = nextId - 1 => queue = << >>)

C1_Witness ==
    /\ NoStop
    /\ Len(handled) >= 2
    /\ Len(handled) = nextId - 1
    /\ queue = << >>

\* C2: once stop() has returned, every command enqueued before its sentinel
\* has been executed.
C2_DrainedBeforeStopReturns ==
    lastLog = "stopped" => \A id \in 1..sentinelAt : IsHandled(id)

\* C3: a stop() that has begun returns.
C3_StopTerminates == (pcCtl # "idle") ~> (pcCtl = "idle")

C3_Witness ==
    /\ lastLog = "stopped"
    /\ pcCtl = "idle"
    /\ \E i \in 1..Len(queue) : ~IsNone(queue[i])

\* The valid command id waits in the queue of a running worker behind a
\* failing command, and no stop() has been issued.
FailingThenValid(id) ==
    /\ NoStop
    /\ WorkerAlive
    /\ \E i \in 1..Len(queue) :
         /\ queue[i].id = id
         /\ Outcome(queue[i]) = "ok"
         /\ \/ \E j \in 1..(i - 1) : IsFailure(queue[j])
            \/ \E t \in Executing : IsFailure(threads[t].cmd)

\* Command id was executed and the LED showed its effect.
EffectObserved(id) ==
    \E k \in 1..Len(handled) :
        /\ handled[k].id = id
        /\ handled[k].outcome = "ok"
        /\ handled[k].after = ExpectedValue(handled[k].method)

\* C4: a valid command queued behind a command that names an unknown device,
\* an unknown operation, or an operation that raises is still executed, with
\* its effect on the device, unless a stop() intervenes.
C4_FailureDoesNotHalt ==
    \A id \in 1..MaxCalls :
        FailingThenValid(id) ~> (EffectObserved(id) \/ ~NoStop)

C4_Witness ==
    /\ NoStop
    /\ Len(handled) = 3
    /\ handled[1].outcome \in {"no_device", "no_method"}
    /\ handled[2].outcome = "raised"
    /\ EffectObserved(handled[3].id)
    /\ devValue["led_17"] = 1

\* C5: every command submitted while the worker is running (alive, flag set,
\* not holding a sentinel), with no later call of stop(), is eventually
\* handled, and no command is handled twice.
C5_ExecutedExactlyOnce ==
    /\ \A id \in 1..MaxCalls :
         (id \in submittedRunning)
             ~> (IsHandled(id) \/ ~NoLaterStop(id) \/ lastLog = "stop_noop")
    /\ [](\A i, j \in 1..Len(handled) : handled[i].id = handled[j].id => i = j)

\* C6: the queue's count of unfinished items is the items still queued plus
\* the one the worker holds: every dequeued item is acknowledged once, no
\* more and no less, by the time the worker is back at its loop test.
C6_AckedOncePerDequeue ==
    unfinished = Len(queue) + Cardinality(InFlight)

C6_Witness ==
    /\ InFlight = {}
    /\ queue = << >>
    /\ unfinished = 0
    /\ \E k \in 1..Len(handled) : handled[k].outcome = "raised"
    /\ \E k \in 1..Len(handled) : handled[k].outcome = "no_device"
    /\ \E t \in 1..Len(threads) : ~Alive(t)

\* C7: at most one worker thread is alive, and a start() that finds the
\* worker alive leaves the threads, the flag and the queue as they are.
C7_AtMostOneWorker ==
    /\ [](Cardinality(AliveThreads) <= 1)
    /\ [][(Start /\ WorkerAlive) =>
            UNCHANGED << threads, worker_thread, worker_running, queue,
                         unfinished, pcCtl >>]_vars

C7_Witness ==
    /\ lastLog = "start_noop"
    /\ WorkerAlive

\* C8: a stop() that finds no live worker enqueues nothing, leaves the
\* queue and the running flag as they are and returns at once.
C8_StopWhenStoppedIsNoop ==
    [][(StopCall /\ ~WorkerAlive) =>
         /\ UNCHANGED << queue, unfinished, worker_running, threads,
                         worker_thread >>
         /\ pcCtl' = "idle"]_vars

C8_Witness ==
    /\ lastLog = "stop_noop"
    /\ pcCtl = "idle"
    /\ worker_thread # 0
    /\ queue # << >>

\* The lifecycle state of the executor: StopRequested from the moment the
\* sentinel is enqueued until join() returns, else Running while the worker
\* thread is alive (or a stop() that found it alive is about to enqueue the
\* sentinel), else Stopped.
Lifecycle ==
    IF pcCtl = "stop_join" THEN "StopRequested"
    ELSE IF pcCtl = "stop_put" \/ WorkerAlive THEN "Running"
    ELSE "Stopped"

LifecycleEdges ==
    { << "Stopped", "Running" >>,
      << "Running", "StopRequested" >>,
      << "StopRequested", "Stopped" >> }

\* C9: the lifecycle moves only Stopped -> Running -> StopRequested ->
\* Stopped.
C9_LifecycleTransitions ==
    [][Lifecycle' # Lifecycle =>
         << Lifecycle, Lifecycle' >> \in LifecycleEdges]_vars

\* C10: every edge that reaches a registered callback hands exactly one
\* DeviceState payload, with the device's name, the edge kind and the
\* device's value, to call_soon_threadsafe.
C10_EdgeHandsOffPayload ==
    /\ Len(scheduled) = edges
    /\ \A i \in 1..Len(scheduled) :
         /\ scheduled[i].type = "DeviceState"
         /\ scheduled[i].device = "button_27"
         /\ scheduled[i].event \in {"pressed", "released"}

\* The threads that are inside a call on a device, with that device.
WorkerAccess ==
    { threads[t].cmd.device : t \in { u \in 1..Len(threads) : threads[u].pc = "call" } }

\* The devices the device library's thread is running a callback for.
CallbackAccess == IF cbThread = NoCallback THEN {} ELSE { cbThread.name }

\* C11: no device is in use by two threads at once: while the worker is
\* inside a call on a device, the callback thread is not running a callback
\* of that device, and no second worker is inside a call on it.
C11_OneThreadPerDevice ==
    /\ WorkerAccess \cap CallbackAccess = {}
    /\ \A t, u \in 1..Len(threads) :
          (t # u /\ threads[t].pc = "call" /\ threads[u].pc = "call")
              => threads[t].cmd.device # threads[u].cmd.device

\* C13: event_queue.put_nowait is only ever executed on the loop thread; an
\* edge callback, which runs on the device library's thread, leaves the
\* event queue as it found it and reaches the loop only through
\* call_soon_threadsafe.
C13_EnqueueOnLoopThread ==
    /\ [](putThreads \subseteq {"loop"})
    /\ [][(EdgePressed \/ EdgeReleased) => UNCHANGED event_queue]_vars

\* A payload was enqueued on the loop thread and an edge callback has run.
C13_Witness ==
    /\ putThreads = {"loop"}
    /\ Len(event_queue) = 2
    /\ edges > 0
    /\ eventLog \notin {"none", "configured"}

\* The positions of published that hold a payload taken from event_queue.
FromQueue == { i \in 1..Len(published) : published[i].id # 0 }

\* C14: the payloads the broker receives are in the order they were given
\* to publish_hardware_event, whatever the connection did in between.
C14_PublishedInEnqueueOrder ==
    \A i, j \in FromQueue : i < j => published[i].id < published[j].id

\* Two payloads were published on two different connections.
C14_Witness ==
    \E i, j \in FromQueue :
        /\ i < j
        /\ published[i].conn # published[j].conn

\* The payload with this identity waits in event_queue, is of a variant the
\* sub-loop routes, and the session task exists.
WaitsRecognised(id) ==
    /\ main_task \notin {"none", "cancelled"}
    /\ \E i \in 1..Len(event_queue) :
          /\ event_queue[i].id = id
          /\ Route(event_queue[i].payload) # NoTopic

IsPublished(id) == \E i \in FromQueue : published[i].id = id

\* C15: as long as nobody stops the publisher, and provided the broker
\* eventually stays reachable, every payload of a routed variant that is
\* enqueued is eventually received by the broker.
C15_EventuallyPublished ==
    \A id \in 1..MaxPayloads :
        (<>[]brokerUp /\ [](pcStop = "idle"))
            => (WaitsRecognised(id) ~> IsPublished(id))

\* The broker has received the goodbye telemetry and, after it, the offline
\* status, each on its topic.
GoodbyePublished ==
    \E i, j \in FromQueue :
        /\ i < j
        /\ published[i].topic = telemetry_topic
        /\ published[i].payload = ToBytes(TelemetryPayload("shutting_down"))
        /\ published[j].topic = status_topic
        /\ published[j].payload = ToBytes(SystemStatusPayload("offline"))

\* C16: when shutdown() cancels the session task, the broker has received
\* the "shutting_down" telemetry and then the "offline" status, whatever
\* state the publisher was in when shutdown() began.
C16_GoodbyeBeforeCancel ==
    pcShutdown \in {"stopping", "mqtt_stopped"} => GoodbyePublished

\* The retained online status, as the broker receives it.
IsOnlineStatus(m) ==
    /\ m.topic = status_topic
    /\ FromBytes(m.payload) = [status |-> Py("str", "online")]
    /\ m.retain
    /\ m.id = 0

\* A retained last-will carrying the offline status on the status topic.
IsOfflineWill(w) ==
    /\ w.topic = status_topic
    /\ FromBytes(w.payload) = [status |-> Py("str", "offline")]
    /\ w.retain

\* C17: on every connection the first message the broker receives is the
\* retained "online" status on the status topic, ahead of any payload from
\* the queue; and every connection attempt registers a retained "offline"
\* status as its last-will.
C17_OnlineFirstAndWill ==
    /\ [](\A i \in 1..Len(published) :
            \/ IsOnlineStatus(published[i])
            \/ \E j \in 1..(i - 1) :
                  /\ published[j].conn = published[i].conn
                  /\ IsOnlineStatus(published[j]))
    /\ [](\A w \in wills : IsOfflineWill(w))
    /\ [][MainLoopConnect => \E w \in wills' : IsOfflineWill(w)]_vars

\* A queued payload was published on a second connection, after a first
\* connection had been lost.
C17_Witness ==
    /\ \E i \in FromQueue : published[i].conn = 2
    /\ \E i \in 1..Len(published) : published[i].conn = 1
    /\ wills # {}

\* The session task is inside `async with MQTTClient(...)`.
Connected == main_task \in {"online", "get", "publish"}

\* C18: a connection error never ends the session task: after it the task
\* waits out the retry delay and attempts to connect again, as often as it
\* takes; the task ends only when stop() cancels it; and if nobody stops
\* the publisher and the broker eventually stays reachable, the session
\* gets connected.
C18_ReconnectsUntilStopped ==
    /\ [](main_task \in {"none", "connect", "online", "get", "publish",
                          "sleep", "cancelled"})
    /\ [](main_task = "cancelled" => pcStop \in {"await", "returned"})
    /\ (main_task = "sleep") ~> (main_task = "connect" \/ pcStop # "idle")
    /\ (<>[]brokerUp /\ [](pcStop = "idle"))
          => ((main_task = "sleep") ~> Connected)

\* The session is connected for the second time, nobody having stopped it.
C18_Witness ==
    /\ conn = 2
    /\ Connected
    /\ pcStop = "idle"

\* C19: a stop() that has cancelled the session task returns, wherever the
\* task was: connecting, connected and waiting, publishing, or in its retry
\* delay.  The task then has ended by the cancellation and in no other way,
\* and the broker receives nothing more once stop() has returned.
C19_StopCompletes ==
    /\ (pcStop = "cancel") ~> (pcStop = "returned")
    /\ [](pcStop = "returned" => main_task \in {"none", "cancelled"})
    /\ [](pcStop = "returned" => held = NoEntry)
    /\ [][pcStop = "returned" => published' = published]_vars

\* stop() has returned after cancelling the task in the middle of a
\* publish, with payloads still waiting.
C19_Witness ==
    /\ pcStop = "returned"
    /\ cancelledIn = "publish"
    /\ event_queue # << >>

\* The topic each routed variant is expected on, written out.
ExpectedTopic(payload) ==
    IF payload.type = "DeviceState"
    THEN << "pi/devices/", payload.device, "/state" >>
    ELSE IF payload.type = "Telemetry"
    THEN << "pi/system/telemetry" >>
    ELSE << "pi/status" >>

\* C20: whenever the sub-loop publishes a payload, a DeviceState goes to the
\* per-device topic with the placeholder replaced by its device, a
\* Telemetry to the telemetry topic and a SystemStatus to the status topic.
C20_RoutedByVariant ==
    [][(PublisherPublish /\ Len(published') > Len(published))
          => /\ held.payload.type \in {"DeviceState", "Telemetry",
                                        "SystemStatus"}
             /\ published'[Len(published')].topic
                    = ExpectedTopic(held.payload)
             /\ published'[Len(published')].id = held.id]_vars

\* The broker has received a payload of each of the three variants from
\* the queue.
C20_Witness ==
    /\ \E i \in FromQueue :
          published[i].topic = << "pi/devices/", "test_led", "/state" >>
    /\ \E i \in FromQueue : published[i].topic = telemetry_topic
    /\ \E i \in FromQueue : published[i].topic = status_topic

\* C21: when the sub-loop takes a payload of a variant it has no branch
\* for, it logs a warning, the broker receives nothing for it, and the
\* sub-loop is back at the queue for the payloads behind it.
C21_UnknownDroppedWithWarning ==
    [][(PublisherGet /\ Route(Head(event_queue).payload) = NoTopic)
          => /\ pubLog' = "unknown_payload_warning"
             /\ published' = published
             /\ main_task' = "get"
             /\ held' = NoEntry]_vars

\* The calls of main_application_runner, in the order of its statements.
StartupCalls ==
    << Call("MQTTManager", ""),
       Call("HardwareManager", "publish_hardware_event"),
       Call("initialize_gpio_devices", ""),
       Call("setup_gpio_callbacks", ""),
       Call("start_worker_thread", ""),
       Call("mqtt_manager.start", ""),
       Call("system_telemetry_loop", "") >>

\* The steps of shutdown(), in the order of its statements.
ShutdownCalls ==
    << Call("publish_goodbye_and_offline", ""),
       Call("mqtt_manager.stop", ""),
       Call("mqtt_manager.stop returned", ""),
       Call("stop_worker_thread", ""),
       Call("cancel_tasks", ""),
       Call("gather", ""),
       Call("loop.stop", "") >>

IsPrefix(s, t) == Len(s) <= Len(t) /\ s = SubSeq(t, 1, Len(s))

\* What the orchestrator has done since the signal.
SinceSignal == SubSeq(opLog, Len(StartupCalls) + 1, Len(opLog))

C23_StartupOrder ==
    /\ IsPrefix(opLog, StartupCalls) \/ IsPrefix(StartupCalls, opLog)
    /\ Len(threads) <= 1
    /\ threads # << >> => devices = InitializeGpioDevices({}, config)
    /\ main_task # "none" => Len(threads) = 1
    /\ telemetry_task # "none" => main_task # "none"
    /\ pcMain = "running" =>
          \A c \in {StartupCalls[i] : i \in 1..Len(StartupCalls)} :
             Cardinality({i \in 1..Len(opLog) : opLog[i] = c}) = 1

\* Startup is over: worker thread, session task and telemetry task run.
C23_Witness ==
    /\ pcMain = "running"
    /\ pcShutdown = "none"
    /\ WorkerAlive
    /\ Connected
    /\ telemetry_task = "running"
    /\ devices # {}

\* A spec that has a name, a pin and a type.
HasNamePinType(conf) == conf.name # "" /\ conf.pin # NoPin /\ conf.type # ""

\* The specs of a device list that have a name, a pin and a known type and
\* whose constructor, called in the order of the list, does not raise.
RECURSIVE ValidSpecs(_, _)
ValidSpecs(reg, device_config) ==
    IF device_config = << >> THEN reg
    ELSE LET conf == Head(device_config)
             ok == /\ HasNamePinType(conf)
                   /\ conf.type \in DEVICE_CLASSES
                   /\ ~ConstructorRaises(reg, conf)
         IN  ValidSpecs(IF ok THEN reg \cup { conf } ELSE reg,
                        Tail(device_config))

\* C24: after initialize_gpio_devices the registry holds exactly the specs
\* of the device list that have a name, a pin and a known type and whose
\* constructor did not raise, whatever specs stand before them in the list.
C24_RegistryIsValidSpecs == devices = ValidSpecs({}, config)

C26_OnlyCapabilitiesInvoked ==
    \A i \in 1..Len(handled) :
        handled[i].method \notin CapabilitySet(RegistryType(devices, "led_17"))
            => handled[i].outcome = "no_method"

\* The state of the session: no task or the task in its retry delay is
\* Disconnected, the task inside `async with` Connected, a task asked to
\* cancel that has not yet been resumed Closing, a cancelled task Closed.
SessionState ==
    IF main_task = "cancelled" THEN "Closed"
    ELSE IF CancelPending THEN "Closing"
    ELSE CASE main_task \in {"none", "sleep"} -> "Disconnected"
           [] main_task = "connect" -> "Connecting"
           [] main_task \in {"online", "get", "publish"} -> "Connected"
           [] OTHER -> "Failed"

SessionStateNext == SessionState'

\* The moves the state machine is said to have.
ClaimedMoves ==
    { << "Disconnected", "Connecting" >>, << "Connecting", "Connected" >>,
      << "Connected", "Disconnected" >>,
      << "Connected", "Closing" >>, << "Disconnected", "Closing" >>,
      << "Closing", "Closed" >>, << "Closed", "Connecting" >> }

\* The moves of _main_loop under start() and stop(): a connection attempt
\* can fail, and stop() can arrive during one.
SessionMoves ==
    ClaimedMoves \cup { << "Connecting", "Disconnected" >>,
                        << "Connecting", "Closing" >> }

\* Payloads leave the queue and reach the broker only in Connected, and
\* only a start() takes the session out of Closed.
OnlyConnectedPublishes ==
    /\ (event_queue' # event_queue /\ Len(event_queue') < Len(event_queue))
          => SessionState = "Connected"
    /\ published' # published => SessionState = "Connected"
    /\ (SessionState = "Closed" /\ SessionStateNext # "Closed") => PubRestart
    /\ (SessionState = "Disconnected" /\ SessionStateNext = "Connecting")
          => (PubStart \/ MainLoopRetry)

\* C27 as stated: the session changes state only along Disconnected ->
\* Connecting -> Connected, Connected -> Disconnected, Connected or
\* Disconnected -> Closing -> Closed, and Closed -> Connecting by start().
C27_ClaimedMovesOnly ==
    [][/\ SessionStateNext # SessionState
          => << SessionState, SessionStateNext >> \in ClaimedMoves
       /\ OnlyConnectedPublishes]_vars

\* C27, amended: the session changes state only along the moves above and
\* Connecting -> Disconnected (the attempt failed) and Connecting -> Closing
\* (stop() during the attempt); Disconnected is left for Connecting only by
\* start() or by the end of the retry delay; payloads are taken from the
\* queue and published only in Connected; Closed is left only by start().
C27_SessionMoves ==
    [][/\ SessionStateNext # SessionState
          => << SessionState, SessionStateNext >> \in SessionMoves
       /\ OnlyConnectedPublishes]_vars

\* The session was closed, started again, and is connected for the second
\* time with a payload from the queue published.
C27_Witness ==
    /\ SessionState = "Connected"
    /\ conn = MaxConns
    /\ pcStop = "idle"
    /\ FromQueue # {}

\* C28: whenever the event queue is empty and the publish sub-loop waits in
\* get(), every payload that was put has been marked done: the queue's
\* count of unfinished tasks is zero.
C28_AllConsumedWhenIdle ==
    (event_queue = << >> /\ main_task = "get") => event_unfinished = 0

C30_NoStaleSentinel ==
    /\ []((pcCtl = "idle" /\ ~WorkerAlive)
            => \A i \in 1..Len(queue) : ~IsNone(queue[i]))
    /\ [][\A t \in 1..Len(threads) :
            (threads[t].pc # "dead" /\ threads'[t].pc = "dead")
               => pcCtl \in {"stop_put", "stop_join"}]_vars

\* The positions of published the broker keeps as the retained message of a
\* topic: those received with the retain flag.
RetainedOn(topic) ==
    { i \in 1..Len(published) :
         published[i].topic = topic /\ published[i].retain }

\* The "offline" status shutdown() enqueued has reached the broker.
OfflinePublished ==
    \E i \in FromQueue :
        /\ published[i].topic = status_topic
        /\ FromBytes(published[i].payload) = [status |-> Py("str", "offline")]

\* C31: once shutdown() has stopped the publisher after its "offline" status
\* reached the broker, the message the broker retains on the status topic,
\* the last one it received there with the retain flag, is that "offline"
\* status.
C31_OfflineRetained ==
    (pcShutdown = "mqtt_stopped" /\ OfflinePublished)
       => \E i \in RetainedOn(status_topic) :
             /\ \A j \in RetainedOn(status_topic) : j <= i
             /\ FromBytes(published[i].payload)
                   = [status |-> Py("str", "offline")]

\* C32: the "offline" status shutdown() enqueued is the last payload from
\* the queue the broker receives: nothing taken from the queue is published
\* after it.
C32_OfflineIsLast ==
    \A i, j \in FromQueue :
        (/\ published[i].topic = status_topic
         /\ FromBytes(published[i].payload) = [status |-> Py("str", "offline")])
           => j <= i

InShutdown(s) == shutdowns[s] \in {"hw", "join"}

SigYields ==
    /\ pcMain = "running"
    /\ pcCtl = "idle"
    /\ \A s \in 1..MaxSignals : ~InShutdown(s)

\* A shutdown() task that has not ended.
SdAlive(s) == shutdowns[s] \notin {"none", "done", "cancelled"}

SdGoes(s, to) == shutdowns' = [shutdowns EXCEPT ![s] = to]

\* A signal arrives: asyncio.create_task(shutdown(...)).
Signal(s) ==
    /\ SigYields
    /\ shutdowns[s] = "none"
    /\ \A u \in 1..(s - 1) : shutdowns[u] # "none"
    /\ SdGoes(s, "new")
    /\ UNCHANGED << cancelReq, orphans, mainVars, pubVars, hwVars, codecVars,
                    bootVars >>

\* shutdown() up to its sleep: the goodbye telemetry and the offline status
\* are enqueued.
SdBegin(s) ==
    /\ SigYields
    /\ shutdowns[s] = "new"
    /\ s \notin cancelReq
    /\ PutNowait(<< TelemetryPayload("shutting_down"),
                    SystemStatusPayload("offline") >>, "loop")
    /\ SdGoes(s, "sleep")
    /\ opLog' = Append(opLog, Call("publish_goodbye_and_offline", ""))
    /\ UNCHANGED << cancelReq, orphans, pcMain, telemetry_task, sessVars,
                    stopVars, hwVars, codecVars, bootVars >>

\* shutdown() after its sleep: await mqtt_manager.stop(). stop() cancels the
\* session task and awaits it; awaiting a task that has already ended
\* raises at once, which stop() catches, and shutdown() goes on without
\* yielding.
SdStop(s) ==
    /\ SigYields
    /\ shutdowns[s] = "sleep"
    /\ s \notin cancelReq
    /\ IF main_task = "cancelled"
       THEN /\ SdGoes(s, "hw")
            /\ UNCHANGED pcStop
            /\ opLog' = Append(opLog, Call("mqtt_manager.stop", "done"))
       ELSE /\ SdGoes(s, "await_stop")
            /\ pcStop' = "cancel"
            /\ opLog' = Append(opLog, Call("mqtt_manager.stop", "cancel"))
    /\ UNCHANGED << cancelReq, orphans, pcMain, telemetry_task, sessVars,
                    queueVars, pcShutdown, cancelledIn, hwVars, codecVars,
                    bootVars >>

\* stop(): the awaited session task has ended. A cancellation of this
\* shutdown() task delivered at the same await is the CancelledError stop()
\* catches and logs, so shutdown() goes on.
SdStopped(s) ==
    /\ SigYields
    /\ shutdowns[s] = "await_stop"
    /\ main_task = "cancelled"
    /\ SdGoes(s, "hw")
    /\ cancelReq' = cancelReq \ {s}
    /\ UNCHANGED << orphans, mainVars, pubVars, hwVars, codecVars, bootVars >>

\* shutdown(): hardware_manager.stop_worker_thread(), which returns at once
\* when the thread is not alive.
SdHwStop(s) ==
    /\ shutdowns[s] = "hw"
    /\ StopWorkerThread
    /\ SdGoes(s, "join")
    /\ opLog' = Append(opLog, Call("stop_worker_thread",
                                   IF WorkerAlive THEN "stop" ELSE "noop"))
    /\ UNCHANGED << cancelReq, orphans, pcMain, telemetry_task, codecVars,
                    bootVars >>

\* shutdown(): every task but the current one is cancelled, then gathered.
\* Cancelling a task suspended in gather() cancels what it gathers, the
\* current task included.
SdCancelTasks(s) ==
    /\ shutdowns[s] = "join"
    /\ pcCtl = "idle"
    /\ SdGoes(s, "gather")
    /\ telemetry_task' = IF telemetry_task = "running" THEN "cancel_pending"
                         ELSE telemetry_task
    /\ cancelReq' = cancelReq
          \cup { u \in 1..MaxSignals \ {s} : SdAlive(u) }
          \cup { u \in {s} : \E w \in 1..MaxSignals \ {s} :
                                 shutdowns[w] = "gather" }
    /\ opLog' = Append(opLog, Call("cancel_tasks", ""))
    /\ UNCHANGED << orphans, pcMain, pubVars, hwVars, codecVars, bootVars >>

\* A cancelled shutdown() task is resumed with CancelledError at its sleep
\* or its gather, or never runs at all; nothing in shutdown() catches it.
SdCancelled(s) ==
    /\ SigYields
    /\ s \in cancelReq
    /\ shutdowns[s] \in {"new", "sleep", "gather"}
    /\ SdGoes(s, "cancelled")
    /\ cancelReq' = cancelReq \ {s}
    /\ opLog' = Append(opLog, Call("shutdown_cancelled", shutdowns[s]))
    /\ UNCHANGED << orphans, pcMain, telemetry_task, pubVars, hwVars,
                    codecVars, bootVars >>

\* shutdown(): gather() has returned, loop.stop().
SdLoopStop(s) ==
    /\ SigYields
    /\ shutdowns[s] = "gather"
    /\ s \notin cancelReq
    /\ telemetry_task = "cancelled"
    /\ \A u \in 1..MaxSignals \ {s} : ~SdAlive(u)
    /\ SdGoes(s, "done")
    /\ pcMain' = "stopped"
    /\ opLog' = Append(opLog, Call("loop.stop", ""))
    /\ UNCHANGED << cancelReq, orphans, telemetry_task, pubVars, hwVars,
                    codecVars, bootVars >>

NextSignals ==
    \/ MainConstructPublisher
    \/ MainConstructExecutor
    \/ MainInitialize
    \/ MainSetupCallbacks
    \/ MainStartWorker
    \/ MainStartMqtt
    \/ MainStartTelemetry
    \/ SigYields /\ TelemetryTick
    \/ SigYields /\ MainLoopConnect
    \/ SigYields /\ MainLoopOnline
    \/ SigYields /\ PublisherGet
    \/ SigYields /\ PublisherPublish
    \/ SigYields /\ TaskCancelled
    \/ SigYields /\ TelemetryCancelled
    \/ \E t \in 1..Len(threads) : WorkerCheck(t)
    \/ \E t \in 1..Len(threads) : WorkerGet(t)
    \/ \E t \in 1..Len(threads) : WorkerGetTimeout(t)
    \/ \E t \in 1..Len(threads) : WorkerSentinel(t)
    \/ StopPut
    \/ StopJoin
    \/ \E s \in 1..MaxSignals : Signal(s)
    \/ \E s \in 1..MaxSignals : SdBegin(s)
    \/ \E s \in 1..MaxSignals : SdStop(s)
    \/ \E s \in 1..MaxSignals : SdStopped(s)
    \/ \E s \in 1..MaxSignals : SdHwStop(s)
    \/ \E s \in 1..MaxSignals : SdCancelTasks(s)
    \/ \E s \in 1..MaxSignals : SdCancelled(s)
    \/ \E s \in 1..MaxSignals : SdLoopStop(s)

SpecSignals == InitMain /\ [][NextSignals]_vars

\* How many times main.py did something, by its log entry.
Times(call) == Cardinality({ i \in 1..Len(opLog) : opLog[i] = call })

\* How many payloads equal to this one wait on the event queue.
Waiting(payload) ==
    Cardinality({ i \in 1..Len(event_queue) :
                     event_queue[i].payload = payload })

\* C34: with the termination handler triggered twice before shutdown has
\* finished, the goodbye telemetry and the offline status are enqueued once
\* each, one stop() cancels the session task, one stop_worker_thread() stops
\* the worker, and no shutdown() task is ended by the cancellation of
\* another.
C34_ShutdownOnce ==
    /\ Times(Call("publish_goodbye_and_offline", "")) <= 1
    /\ Waiting(TelemetryPayload("shutting_down")) <= 1
    /\ Waiting(SystemStatusPayload("offline")) <= 1
    /\ Times(Call("mqtt_manager.stop", "cancel")) <= 1
    /\ Times(Call("stop_worker_thread", "stop")) <= 1
    /\ \A s \in 1..MaxSignals : shutdowns[s] # "cancelled"

\* ------------------------------------------------ start() and stop() again
\* Session tasks one Publisher can leave behind.
MaxOrphans == 1

\* A session task is running _main_loop.
Running(pc) == pc \notin {"none", "cancelled"}

\* MQTTManager.start() whenever a caller awaits it: a new task is created
\* and self._main_task names it, whatever it named before; a task it named
\* that is still running runs on, with nothing referring to it.
MqttStartAny ==
    /\ pcStop \in {"idle", "returned"}
    /\ pcShutdown = "none"
    /\ IF Running(main_task)
       THEN /\ Len(orphans) < MaxOrphans
            /\ orphans' = Append(orphans, [pc |-> main_task, held |-> held])
       ELSE /\ conn < MaxConns
            /\ UNCHANGED orphans
    /\ main_task' = "connect"
    /\ held' = NoEntry
    /\ pcStop' = "idle"
    /\ cancelledIn' = "none"
    /\ UNCHANGED << conn, brokerUp, linkUp, published, wills, pubLog,
                    pcShutdown >>
    /\ UNCHANGED << shutdowns, cancelReq >>
    /\ UNCHANGED << queueVars, hwVars, mainVars, codecVars, bootVars >>

\* _main_loop and _publisher_loop in a task self._main_task no longer
\* names, the broker being reachable: it connects, publishes the online
\* status, and takes and publishes entries of the same event queue.
OrphanStep(i) ==
    /\ i \in 1..Len(orphans)
    /\ brokerUp
    /\ LET o == orphans[i]
           goes(pc, h) == orphans' = [orphans EXCEPT ![i] = [pc |-> pc, held |-> h]]
       IN  CASE o.pc = "connect" ->
                  /\ goes("online", o.held)
                  /\ conn' = conn + 1
                  /\ wills' = wills \cup {LastWill}
                  /\ UNCHANGED << published, queueVars >>
             [] o.pc = "online" ->
                  /\ goes("get", o.held)
                  /\ published' = published \o AfterConnect(TRUE).sent
                  /\ UNCHANGED << conn, wills, queueVars >>
             [] o.pc = "get" ->
                  /\ event_queue # << >>
                  /\ event_queue' = EventGet(event_queue).rest
                  /\ IF Route(EventGet(event_queue).item.payload) = NoTopic
                     THEN goes("get", o.held)
                     ELSE goes("publish", EventGet(event_queue).item)
                  /\ UNCHANGED << conn, wills, published, putThreads, nextPid,
                                  event_unfinished >>
             [] o.pc = "publish" ->
                  /\ goes("get", NoEntry)
                  /\ published' = Append(published,
                         Message(Route(o.held.payload), ToBytes(o.held.payload),
                                 FALSE, o.held.id))
                  /\ event_unfinished' = event_unfinished - 1
                  /\ UNCHANGED << conn, wills, event_queue, putThreads, nextPid >>
    /\ UNCHANGED << main_task, held, brokerUp, linkUp, pubLog, stopVars >>
    /\ UNCHANGED << shutdowns, cancelReq >>
    /\ UNCHANGED << hwVars, mainVars, codecVars, bootVars >>

NextStartStop ==
    \/ MqttStartAny
    \/ Enqueue
    \/ MainLoopConnect
    \/ MainLoopOnline
    \/ PublisherGet
    \/ PublisherPublish
    \/ PubStop
    \/ TaskCancelled
    \/ PubStopReturn
    \/ \E i \in 1..MaxOrphans : OrphanStep(i)

SpecStartStop == Init /\ [][NextStartStop]_vars

\* The session tasks that are running, the one self._main_task names being
\* number 0.
SessionTasks ==
    { i \in 1..Len(orphans) : Running(orphans[i].pc) }
       \cup { i \in {0} : Running(main_task) }

\* C35: whatever start() and stop() calls are made on one Publisher, at most
\* one session task is running and reading the event queue, and when a
\* stop() has returned no session task that was started is still running.
C35_OneSessionTask ==
    /\ Cardinality(SessionTasks) <= 1
    /\ pcStop = "returned" => SessionTasks = {}

\* ------------------------------------------------- payloads that fail
\* A device event whose value json.dumps cannot encode.
BadPayload == DeviceStatePayload("button_27", "state", Py("set", "{1}"))

\* publish_hardware_event given any payload, encodable or not.
EnqueueAny ==
    \E payload \in Payloads \cup {BadPayload} : PublishHardwareEvent(payload)

\* The session with a broker that stays reachable: no connection is lost.
NextPayloads ==
    \/ PubStart
    \/ EnqueueAny
    \/ MainLoopConnect
    \/ MainLoopOnline
    \/ PublisherGet
    \/ PublisherPublish
    \/ MainLoopRetry

SpecPayloads == Init /\ [][NextPayloads]_vars

\* C36: while no connection error occurs, a payload that cannot be encoded
\* costs that payload only: the session stays connected on its first
\* connection, never enters the retry delay, and goes on taking payloads.
C36_PayloadFailureIsLocal ==
    /\ conn <= 1
    /\ main_task \in {"none", "connect", "online", "get", "publish"}
    /\ main_task \in {"get", "publish"} => linkUp

\* What _execute_command returned early on: the device name is not in the
\* registry, or the device has no attribute of the method's name.
Rejected(entry) == entry.outcome \in {"no_device", "no_method"}

\* C37: the step in which a command is rejected for an unknown device or an
\* unknown method changes no device value, puts nothing on the event queue
\* or the loop, and leaves the command queue as it is; the worker goes on
\* to its one task_done() for the command, and no command is handled twice.
C37_RejectedIsInert ==
    /\ [][(/\ Len(handled') = Len(handled) + 1
           /\ Rejected(handled'[Len(handled')]))
             => /\ UNCHANGED << devValue, devices, queue, unfinished,
                                event_queue, scheduled >>
                /\ \E t \in 1..Len(threads) :
                      /\ threads'[t].pc = "ack"
                      /\ threads'[t].cmd.id = handled'[Len(handled')].id]_vars
    /\ [][\A t \in 1..Len(threads) :
            (threads[t].pc = "ack" /\ threads'[t] # threads[t])
               => /\ unfinished' = unfinished - 1
                  /\ threads'[t].pc = "check"
                  /\ UNCHANGED << devValue, queue, handled >>]_vars
    /\ [](\A i, j \in 1..Len(handled) :
            handled[i].id = handled[j].id => i = j)

\* A command for an unknown device and one for an unknown method have been
\* rejected and acknowledged, the LED being on.
C37_Witness ==
    /\ \E i \in 1..Len(handled) : handled[i].outcome = "no_device"
    /\ \E i \in 1..Len(handled) : handled[i].outcome = "no_method"
    /\ devValue["led_17"] = 1
    /\ unfinished = 0

\* ------------------------------------------------------- configuration
\* A dict of the configuration: every key it may hold, present or not.
Absent == [has |-> FALSE]

Present(v) == [has |-> TRUE, v |-> v]

ConfigKeys ==
    {"mqtt", "topic_pattern", "status_topic", "telemetry_topic", "devices"}

MqttKeys == {"host", "port", "client_id", "username", "password"}

EmptyDict(keys) == [k \in keys |-> Absent]

\* dict.get(key, default)
Get(dict, key, default) == IF dict[key].has THEN dict[key].v ELSE default

\* What can be at the path: nothing, an empty file, a file that is not
\* YAML, and a configuration naming a broker and the two devices.
ConfigFiles == {"missing", "empty", "garbage", "valid"}

ValidConfig ==
    [EmptyDict(ConfigKeys) EXCEPT
        !["mqtt"] = Present([EmptyDict(MqttKeys) EXCEPT
                                !["host"] = Present("broker.lan"),
                                !["port"] = Present(8883)]),
        !["devices"] = Present(DefaultConfig)]

\* A load_config that raised when the file is not there.
LoadConfigStrict(file) ==
    CASE file = "valid"   -> [raised |-> FALSE, dict |-> ValidConfig]
      [] file = "empty"   -> [raised |-> FALSE, dict |-> EmptyDict(ConfigKeys)]
      [] OTHER            -> [raised |-> TRUE, dict |-> EmptyDict(ConfigKeys)]

\* load_config(path): {} when nothing exists at the path, the parsed
\* mapping or {} for an empty document, and the parse error raised again.
LoadConfig(file) ==
    CASE file = "missing" -> [raised |-> FALSE, dict |-> EmptyDict(ConfigKeys)]
      [] file = "empty"   -> [raised |-> FALSE, dict |-> EmptyDict(ConfigKeys)]
      [] file = "garbage" -> [raised |-> TRUE, dict |-> EmptyDict(ConfigKeys)]
      [] file = "valid"   -> [raised |-> FALSE, dict |-> ValidConfig]

\* MQTTManager.__init__: the fields read from the configuration, each with
\* its default.
MqttParams(cfg) ==
    LET mqtt_conf == Get(cfg, "mqtt", EmptyDict(MqttKeys))
    IN  [topic_template  |-> Get(cfg, "topic_pattern",
                                 << "pi/devices/", "{device}", "/state" >>),
         host            |-> Get(mqtt_conf, "host", "localhost"),
         port            |-> Get(mqtt_conf, "port", 1883),
         client_id       |-> Get(mqtt_conf, "client_id", "pi-gatekeeper"),
         username        |-> Get(mqtt_conf, "username", "None"),
         password        |-> Get(mqtt_conf, "password", "None"),
         status_topic    |-> Get(cfg, "status_topic", << "pi/status" >>),
         telemetry_topic |-> Get(cfg, "telemetry_topic",
                                 << "pi/system/telemetry" >>)]

\* main_application_runner before anything is loaded, with any of the files
\* at the path.
InitBoot ==
    /\ cfgFile \in ConfigFiles
    /\ loaded = NoObj
    /\ params = NoObj
    /\ config = << >>
    /\ pcMain = "load_config"
    /\ InitProcess

\* config = load_config(script_dir / "config.yaml"): an exception ends
\* main_application_runner; self.config.get("devices", []) is what the
\* executor will read.
BootLoadConfig ==
    /\ pcMain = "load_config"
    /\ IF LoadConfig(cfgFile).raised
       THEN /\ pcMain' = "raised"
            /\ UNCHANGED << loaded, config >>
       ELSE /\ pcMain' = "MQTTManager"
            /\ loaded' = [type |-> "dict", items |-> LoadConfig(cfgFile).dict]
            /\ config' = Get(LoadConfig(cfgFile).dict, "devices", << >>)
    /\ opLog' = Append(opLog, Call("load_config", cfgFile))
    /\ UNCHANGED << cfgFile, params, devices, registryAccess, execVars,
                    eventVars, telemetry_task, pubVars, codecVars, taskVars >>

\* mqtt_manager = MQTTManager(event_queue=event_queue, config=config) with
\* the configuration that was loaded.
BootConstructPublisher ==
    /\ pcMain = "MQTTManager"
    /\ pcMain' = "HardwareManager"
    /\ params' = MqttParams(loaded.items)
    /\ opLog' = Append(opLog, Call("MQTTManager", ""))
    /\ UNCHANGED << cfgFile, loaded, telemetry_task, pubVars, hwVars,
                    codecVars, taskVars >>

NextBoot ==
    \/ BootLoadConfig
    \/ BootConstructPublisher
    \/ MainConstructExecutor
    \/ MainInitialize
    \/ MainSetupCallbacks
    \/ MainStartWorker
    \/ MainStartMqtt
    \/ MainStartTelemetry
    \/ TelemetryTick
    \/ LoopYields /\ MainLoopConnect
    \/ LoopYields /\ MainLoopOnline
    \/ LoopYields /\ PublisherGet
    \/ LoopYields /\ PublisherPublish
    \/ \E t \in 1..Len(threads) : WorkerCheck(t)
    \/ \E t \in 1..Len(threads) : WorkerGetTimeout(t)

SpecBoot == InitBoot /\ [][NextBoot]_vars

\* C38: with nothing at the path, load_config returns the empty dict and
\* raises nothing, the Publisher is constructed with every session parameter
\* and routing key at its default, and the registry stays empty through
\* startup.
C38_MissingFileGivesDefaults ==
    cfgFile = "missing" =>
        /\ pcMain # "raised"
        /\ pcMain # "load_config" =>
              /\ loaded = [type |-> "dict", items |-> EmptyDict(ConfigKeys)]
              /\ config = << >>
        /\ params # NoObj =>
              /\ params.host = "localhost"
              /\ params.port = 1883
              /\ params.client_id = "pi-gatekeeper"
              /\ params.username = "None"
              /\ params.password = "None"
              /\ params.topic_template = topic_template
              /\ params.status_topic = status_topic
              /\ params.telemetry_topic = telemetry_topic
        /\ devices = {}
        /\ callbacks = {}

\* Startup has run to its end on the empty configuration: the worker thread
\* is alive and the session is connected and has published.
C38_Witness ==
    /\ cfgFile = "missing"
    /\ pcMain = "running"
    /\ params # NoObj
    /\ WorkerAlive
    /\ main_task = "get"
    /\ \E i \in FromQueue : published[i].topic = telemetry_topic

====
